---- MODULE Spec2Model ----
(***************************************************************************)
(* One send-message lifecycle of the m006 chat gateway:                    *)
(*   ChatService.sendMessageStream (services/chat.ts), an async generator, *)
(*   driven by one of its two consumers,                                   *)
(*     the SSE route  POST /api/chat/stream (routes/chat.ts), or           *)
(*     ChatService.sendMessage, the synchronous variant,                   *)
(*   over its collaborators: CoreClient.billingStart / billingFinish,      *)
(*   StorageService.getConversation / addMessage, streamChatCompletion.    *)
(* A generator runs only while its consumer awaits next(); a consumer that *)
(* leaves its for-await loop early (break, throw) calls return() on the    *)
(* generator, which ends it at the yield where it is suspended.            *)
(***************************************************************************)
EXTENDS Integers, Sequences, FiniteSets, TLC

\* ------------------------------------------------------------------ bounds
\* frames the provider sends over the attempts of one upstream call
MaxFrames == 2
\* messages one conversation file comes to hold
MaxStored == 2
\* times the clock jumps
MaxTicks == 2
\* images one request body carries
MaxSent == 6
\* calls of the page's sendMessage
MaxCalls == 3

\* ------------------------------------------------------- program constants
MAX_RETRIES_429 == 3
TITLE_LEN == 80
\* config.conversationTtlDays and the window of GET /api/conversations, in days
CONVERSATION_TTL_DAYS == 7
\* private baseDelay = 500, in milliseconds
baseDelay == 500
\* the days of the window of GET /api/conversations
LIST_DAYS == 7
\* processedImages.length > 5
MAX_IMAGES == 5

\* the title createConversation gives (the text of the source is not ASCII)
DEFAULT_TITLE == <<"New conversation">>
CONFIG_MODEL == "gpt-4o"

\* ------------------------------------------------------------ value spaces
NodeEnvs == {"development", "production"}
Consumers == {"sse", "sync"}
\* text fragments of the provider's delta frames (non-empty strings)
Deltas == {"a"}
\* BillingStartResponse.reason of a denial; "null" is the JSON null
DenyReasons == {"balance_non_positive", "balance_below_threshold", "limit_exceeded", "null"}
\* the user's message and the rendered context fields, as text fragments
MESSAGE == <<"q">>
CONTEXT_PARTS == <<"k: v">>
\* a turn held by the store before this lifecycle
PriorTurn(rid) ==
  << [role |-> "user", content |-> <<"p">>, responseId |-> "none"],
     [role |-> "assistant", content |-> <<"r">>, responseId |-> rid] >>
\* the response identifier the file of a prior turn may hold
ResponseIds == {"none", "resp_0"}
\* response.id of a response.completed frame
FrameIds == {"none", "resp_1"}

VARIABLES
  \* deployment and request
  nodeEnv,            \* config.nodeEnv
  consumer,           \* which consumer drives the generator
  hasContext,         \* params.context has at least one field
  \* sendMessageStream (the generator)
  pc,                 \* the statement the generator is at
  gstate,             \* "active" | "returned" | "thrown" | "closed" (by return())
  billingStarted, finalMessage, lastResponseId,
  finalContent, finalUsage, finalModel, finalResponseId, aiSucceeded,
  events,             \* every StreamEvent yielded so far
  pending,            \* the last yielded event is not yet taken by the consumer
  \* streamChatCompletion (the upstream generator)
  upc, retryCount, fullContent, upUsage, upModel, upOut, httpAttempts, framesLeft,
  messages,           \* the parameter messages of the call
  frameId,            \* response.id of the response.completed frame received
  \* StorageService: the conversation file of (userId, sessionId)
  conv,
  \* CoreClient: the calls made
  startCalls,         \* number of billingStart calls
  startOutcome,       \* what billingStart answered: "allowed" | "denied" | "failed"
  denyReason,         \* billingResult.reason of a denial
  finishReqs,         \* the bodies of the billingFinish requests, in order
  finishThrew,        \* the last billingFinish call rejected
  \* every collaborator call of the lifecycle and the final done, in order
  oplog,
  \* consumers
  cstate, clientDisconnected, wire, resEnded, syncResult,
  \* one call of streamChatCompletion on its own
  answers,            \* what the provider answers, attempt by attempt
  upResult,           \* the events the call yielded and how it ended
  \* one CoreClient operation on its own
  coreOp,             \* billingStart | billingFinish | getBalance
  coreAnswers,        \* what CORE answers, attempt by attempt
  coreResult,         \* the response returned or the error thrown
  \* StorageService on its own: every conversation file of one user
  store,              \* the user's directory and the file of each session
  now,                \* the day of the clock
  storeOut,           \* the last operation and what it returned
  \* one send-message request at its route handler
  request,            \* the route and the fields of the body
  response,           \* the HTTP answer, and whether ChatService was called
  \* the page of public/chat.js
  page,               \* isStreaming, currentSessionId, the input, each sendMessage call
  \* the store calls of lifecycles running side by side, one per session
  life                \* per session: where its lifecycle is and what it holds

genVars == <<pc, gstate, billingStarted, finalMessage, lastResponseId,
             finalContent, finalUsage, finalModel, finalResponseId, aiSucceeded>>
outVars == <<events, pending>>
upIn == <<messages, frameId>>
upVars == <<upc, retryCount, fullContent, upUsage, upModel, upOut, httpAttempts, framesLeft, upIn>>
coreVars == <<startCalls, startOutcome, denyReason, finishReqs, finishThrew>>
consVars == <<cstate, clientDisconnected, wire, resEnded, syncResult>>
\* the calls studied on their own, outside a lifecycle
upCallVars == <<answers, upResult>>
coreCallVars == <<coreOp, coreAnswers, coreResult>>
storeVars == <<store, now, storeOut>>
routeVars == <<request, response, page>>
pairVars == <<life>>
unitVars == <<upCallVars, coreCallVars, storeVars, routeVars, pairVars>>
cfgVars == <<nodeEnv, consumer, hasContext, unitVars>>
vars == <<cfgVars, genVars, outVars, upVars, conv, coreVars, oplog, consVars>>

\* ------------------------------------------------------------ StreamEvent
NoEvent == [type |-> "none", status |-> "", progress |-> 0, delta |-> "",
            content |-> <<>>, usage |-> "none", model |-> "none",
            responseId |-> "none", errorCode |-> "", errorMessage |-> ""]
StatusEvent(s, p) == [NoEvent EXCEPT !.type = "status", !.status = s, !.progress = p]
DeltaEvent(d) == [NoEvent EXCEPT !.type = "text_delta", !.delta = d]
ErrorEvent(code, msg) == [NoEvent EXCEPT !.type = "error", !.errorCode = code, !.errorMessage = msg]
\* the done event of streamChatCompletion: content, usage, model
UpDoneEvent(c, u, m) == [NoEvent EXCEPT !.type = "done", !.content = c, !.usage = u, !.model = m]
\* the done event of sendMessageStream: content, usage, responseId
DoneEvent(c, u, r) == [NoEvent EXCEPT !.type = "done", !.content = c, !.usage = u, !.responseId = r]

Terminal(e) == e.type \in {"done", "error"}

\* a || b of JavaScript on strings, "none" standing for undefined
OrElse(a, b) == IF a = "none" \/ a = "" THEN b ELSE a

\* ------------------------------------------------------------------- Init
\* the file of the conversation: absent, holding a conversation, or holding
\* text that JSON.parse rejects (corrupt)
NoConversation == [exists |-> FALSE, corrupt |-> FALSE, title |-> <<>>, messages |-> <<>>]
EmptyConversation == [exists |-> TRUE, corrupt |-> FALSE, title |-> DEFAULT_TITLE, messages |-> <<>>]
PriorConversation(rid) ==
  [exists |-> TRUE, corrupt |-> FALSE, title |-> <<"p">>, messages |-> PriorTurn(rid)]
CorruptConversation == [exists |-> TRUE, corrupt |-> TRUE, title |-> <<>>, messages |-> <<>>]

NoResult == [status |-> "pending", content |-> <<>>, usage |-> "none", code |-> "", message |-> ""]

NoCall == [called |-> FALSE]
\* the sessions of the user whose directory is studied, in readdir order
SessionOrder == <<"s1", "s2">>
Sessions == {SessionOrder[i] : i \in 1..Len(SessionOrder)}
\* a conversation file: what it holds and the days of its two timestamps
AbsentFile == [conv |-> NoConversation, created_at |-> 0, updated_at |-> 0]
CorruptFile == [conv |-> CorruptConversation, created_at |-> 0, updated_at |-> 0]
NoStore == [dir |-> FALSE, files |-> [s \in Sessions |-> AbsentFile]]
NoOut == [op |-> "none", session |-> "none", role |-> "none", content |-> <<>>, resolved |-> TRUE,
          conv |-> NoConversation, list |-> <<>>, doc |-> <<>>, count |-> 0]
NoAnswers == [first |-> "none", rest |-> "none"]
NoRequest == [route |-> "none"]
NoResponse == [sent |-> FALSE]
NoPage == [loaded |-> FALSE]
NoLives == [s \in Sessions |-> [pc |-> "none"]]

\* no call is studied on its own
UnitIdle ==
  /\ answers = NoAnswers
  /\ upResult = NoCall
  /\ coreOp = "none"
  /\ coreAnswers = NoAnswers
  /\ coreResult = NoCall
  /\ store = NoStore
  /\ now = 0
  /\ storeOut = NoOut
  /\ request = NoRequest
  /\ response = NoResponse
  /\ page = NoPage
  /\ life = NoLives

\* the start of a lifecycle
LifecycleInit ==
  /\ nodeEnv \in NodeEnvs
  /\ consumer \in Consumers
  /\ hasContext \in BOOLEAN
  /\ pc = "start"
  /\ gstate = "active"
  /\ billingStarted = FALSE
  /\ finalMessage = MESSAGE
  /\ lastResponseId = "none"
  /\ finalContent = <<>>
  /\ finalUsage = "none"
  /\ finalModel = "none"
  /\ finalResponseId = "none"
  /\ aiSucceeded = FALSE
  /\ events = <<>>
  /\ pending = FALSE
  /\ upc = "unopened"
  /\ retryCount = 0
  /\ fullContent = <<>>
  /\ upUsage = "none"
  /\ upModel = "none"
  /\ upOut = NoEvent
  /\ httpAttempts = 0
  /\ framesLeft = MaxFrames
  /\ messages = <<>>
  /\ frameId = "none"
  /\ conv \in {NoConversation, EmptyConversation, CorruptConversation}
              \cup {PriorConversation(r) : r \in ResponseIds}
  /\ startCalls = 0
  /\ startOutcome = "none"
  /\ denyReason = "none"
  /\ finishReqs = <<>>
  /\ finishThrew = FALSE
  /\ oplog = <<>>
  /\ cstate = "iterating"
  /\ clientDisconnected = FALSE
  /\ wire = <<>>
  /\ resEnded = FALSE
  /\ syncResult = NoResult

Init == LifecycleInit /\ UnitIdle

\* ------------------------------------------------- generator and consumer
\* The generator body runs while its consumer awaits next().
Running == gstate = "active" /\ ~pending /\ cstate = "iterating"

\* yield e
Yield(e) == events' = Append(events, e) /\ pending' = TRUE

Log(op) == oplog' = Append(oplog, op)

\* ----------------------------------------------------------- StorageService
\* getConversation: the parsed file, or null when the file is absent or cannot
\* be read or parsed (the catch returns null).
GetConversation(c) == IF c.exists /\ ~c.corrupt THEN c ELSE NoConversation

\* the title addMessage derives from a user message
TitleOf(content) ==
  IF Len(content) > TITLE_LEN
    THEN SubSeq(content, 1, TITLE_LEN) \o <<"...">>
    ELSE content

\* addMessage, run to its end: the stored conversation afterwards. The sixth
\* argument of the call in chat.ts has no parameter in storage.ts.
AddMessageOk(c, role, content) ==
  LET got == GetConversation(c)
      base == IF got.exists THEN got ELSE EmptyConversation
  IN [exists |-> TRUE, corrupt |-> FALSE,
      title |-> IF role = "user" /\ base.title = DEFAULT_TITLE THEN TitleOf(content) ELSE base.title,
      messages |-> Append(base.messages, [role |-> role, content |-> content, responseId |-> "none"])]

\* addMessage failing: "create" when createConversation's mkdir or writeFile
\* rejects (nothing written), "save" when saveConversation's does (a
\* conversation created by this call is already on disk, empty).
AddMessageFailed(c, how) ==
  IF how = "save" /\ ~GetConversation(c).exists THEN EmptyConversation ELSE c

\* how addMessage can end for the stored conversation c
AddMessageOutcomes(c) ==
  IF GetConversation(c).exists THEN {"ok", "save"} ELSE {"ok", "create", "save"}

\* getMessagesForAI: the user and assistant messages, as role and content
GetMessagesForAI(c) ==
  LET got == GetConversation(c)
      kept == SelectSeq(got.messages, LAMBDA msg : msg.role \in {"user", "assistant"})
  IN [i \in 1..Len(kept) |-> [role |-> kept[i].role, content |-> kept[i].content]]

\* getLastResponseId: the response identifier of the last assistant message
LastAssistant(msgs) ==
  LET idx == {i \in 1..Len(msgs) : msgs[i].role = "assistant"}
  IN IF idx = {} THEN 0 ELSE CHOOSE i \in idx : \A j \in idx : j <= i
GetLastResponseId(c) ==
  LET got == GetConversation(c)
      i == LastAssistant(got.messages)
  IN IF i = 0 THEN "none" ELSE got.messages[i].responseId

\* --------------------------------------------------------------- CoreClient
\* the body of POST /billing/finish
FinishBody(action, usage, model) ==
  IF action = "commit" /\ usage # "none"
    THEN [action |-> action, usage |-> usage, model |-> OrElse(model, CONFIG_MODEL)]
    ELSE [action |-> action, usage |-> "none", model |-> "none"]

\* coreClient.billingFinish(userId, requestId, action, usage, model): the
\* request is made whether or not the call then rejects (CoreClient.request
\* throws on a 4xx answer, on exhausted retries, on a network failure).
BillingFinish(action, usage, model) ==
  /\ finishReqs' = Append(finishReqs, FinishBody(action, usage, model))
  /\ finishThrew' \in BOOLEAN
  /\ Log(IF action = "commit" THEN "billingFinish:commit" ELSE "billingFinish:rollback")

\* ------------------------------------------------------- sendMessageStream
\* the error code of a denied pre-authorization
DeniedCode_AlwaysDenied(reason) == "BILLING_DENIED"

DeniedCode(reason) ==
  IF reason = "balance_non_positive" \/ reason = "balance_below_threshold"
    THEN "INSUFFICIENT_BALANCE"
    ELSE "BILLING_DENIED"

\* the error message of a denied pre-authorization: a fixed text for the
\* balance reasons, else a text that quotes the reason
DeniedMessage(reason) ==
  CASE reason = "balance_non_positive" \/ reason = "balance_below_threshold" -> "insufficient_funds"
    [] reason = "limit_exceeded" -> "denied: limit_exceeded"
    [] OTHER -> "denied: null"

\* a catch of billingStart that always continues without billing
DevFallback_Always == TRUE

\* the catch of billingStart continues without billing
DevFallback == nodeEnv = "development"

\* a lifecycle that skips the pre-authorization
AfterStatusBalance_NoBilling == "statusLoading"

\* the statement after the first status event: 1. billing start
AfterStatusBalance == "billingStart"

\* yield { type: 'status', ... progress: 5 }
StatusBalance ==
  /\ Running /\ pc = "start"
  /\ Yield(StatusEvent("checking_balance", 5))
  /\ pc' = AfterStatusBalance
  /\ UNCHANGED <<cfgVars, gstate, billingStarted, finalMessage, lastResponseId,
                 finalContent, finalUsage, finalModel, finalResponseId, aiSucceeded,
                 upVars, conv, coreVars, oplog, consVars>>

\* 1. await coreClient.billingStart: allowed
BillingStartAllowed ==
  /\ Running /\ pc = "billingStart"
  /\ startCalls' = startCalls + 1
  /\ startOutcome' = "allowed"
  /\ Log("billingStart")
  /\ billingStarted' = TRUE
  /\ pc' = "statusLoading"
  /\ UNCHANGED <<cfgVars, gstate, finalMessage, lastResponseId,
                 finalContent, finalUsage, finalModel, finalResponseId, aiSucceeded,
                 outVars, upVars, conv, denyReason, finishReqs, finishThrew, consVars>>

\* a denial whose return statement is missing
AfterDenied_FallsThrough == "statusLoading"

\* where the generator goes after yielding the error of a denial
AfterDenied == "return"

\* 1. billingStart answers allowed: false
BillingStartDenied ==
  /\ Running /\ pc = "billingStart"
  /\ \E reason \in DenyReasons :
       /\ denyReason' = reason
       /\ Yield(ErrorEvent(DeniedCode(reason), DeniedMessage(reason)))
  /\ startCalls' = startCalls + 1
  /\ startOutcome' = "denied"
  /\ Log("billingStart")
  /\ pc' = AfterDenied
  /\ UNCHANGED <<cfgVars, gstate, billingStarted, finalMessage, lastResponseId,
                 finalContent, finalUsage, finalModel, finalResponseId, aiSucceeded,
                 upVars, conv, finishReqs, finishThrew, consVars>>

\* 1. billingStart throws (CORE unreachable, 4xx, retries exhausted)
BillingStartFailed ==
  /\ Running /\ pc = "billingStart"
  /\ startCalls' = startCalls + 1
  /\ startOutcome' = "failed"
  /\ Log("billingStart")
  /\ IF DevFallback
       THEN pc' = "statusLoading" /\ UNCHANGED outVars
       ELSE pc' = "return" /\ Yield(ErrorEvent("BILLING_ERROR", "billing_check_failed"))
  /\ UNCHANGED <<cfgVars, gstate, billingStarted, finalMessage, lastResponseId,
                 finalContent, finalUsage, finalModel, finalResponseId, aiSucceeded,
                 upVars, conv, denyReason, finishReqs, finishThrew, consVars>>

\* return; after a yielded error, and the end of the body after the final done
Return ==
  /\ Running /\ pc = "return"
  /\ gstate' = "returned"
  /\ pc' = "end"
  /\ UNCHANGED <<cfgVars, billingStarted, finalMessage, lastResponseId,
                 finalContent, finalUsage, finalModel, finalResponseId, aiSucceeded,
                 outVars, upVars, conv, coreVars, oplog, consVars>>

\* yield { type: 'status', ... progress: 10 }
StatusLoading ==
  /\ Running /\ pc = "statusLoading"
  /\ Yield(StatusEvent("loading_history", 10))
  /\ pc' = "getConversation"
  /\ UNCHANGED <<cfgVars, gstate, billingStarted, finalMessage, lastResponseId,
                 finalContent, finalUsage, finalModel, finalResponseId, aiSucceeded,
                 upVars, conv, coreVars, oplog, consVars>>

\* 2. the message to persist: the context fields are appended when the
\* conversation was read and holds no message
FinalMessage(conversation) ==
  IF conversation.exists /\ Len(conversation.messages) = 0 /\ hasContext
    THEN MESSAGE \o CONTEXT_PARTS
    ELSE MESSAGE

\* 2. await storageService.getConversation
LoadConversation ==
  /\ Running /\ pc = "getConversation"
  /\ finalMessage' = FinalMessage(GetConversation(conv))
  /\ Log("getConversation")
  /\ pc' = "addUser"
  /\ UNCHANGED <<cfgVars, gstate, billingStarted, lastResponseId,
                 finalContent, finalUsage, finalModel, finalResponseId, aiSucceeded,
                 outVars, upVars, conv, coreVars, consVars>>

\* await storageService.addMessage(userId, sessionId, 'user', finalMessage):
\* a rejection is not caught, the generator throws
PersistUser ==
  /\ Running /\ pc = "addUser"
  /\ \E how \in AddMessageOutcomes(conv) :
       IF how = "ok"
         THEN /\ conv' = AddMessageOk(conv, "user", finalMessage)
              /\ pc' = "getLastResponseId"
              /\ gstate' = gstate
         ELSE /\ conv' = AddMessageFailed(conv, how)
              /\ pc' = "end"
              /\ gstate' = "thrown"
  /\ Log("addMessage:user")
  /\ UNCHANGED <<cfgVars, billingStarted, finalMessage, lastResponseId,
                 finalContent, finalUsage, finalModel, finalResponseId, aiSucceeded,
                 outVars, upVars, coreVars, consVars>>

\* 3. await storageService.getLastResponseId
ReadLastResponseId ==
  /\ Running /\ pc = "getLastResponseId"
  /\ lastResponseId' = GetLastResponseId(conv)
  /\ Log("getLastResponseId")
  /\ pc' = "upstream"
  /\ UNCHANGED <<cfgVars, gstate, billingStarted, finalMessage,
                 finalContent, finalUsage, finalModel, finalResponseId, aiSucceeded,
                 outVars, upVars, conv, coreVars, consVars>>

\* 4. the input of the upstream call: the last message only
OpenaiInput == << [role |-> "user", content |-> finalMessage] >>

\* ----------------------------------------------------- streamChatCompletion
\* previous_response_id of the request: the function declares the parameters
\* messages and requestId, and its request body holds input and stream (with
\* prompt, or model and instructions)
UpResumeId == "none"

\* The upstream generator runs while sendMessageStream awaits its next().
UpRunning == Running /\ pc = "upstream" /\ upOut = NoEvent

UpYield(e) == upOut' = e

\* the catch of the attempt loop, for an error that is no OpenAIError:
\* another attempt after a status event, or the end of the loop
CanRetryAt_Never(count) == FALSE

CanRetryAt(count) == count < MAX_RETRIES_429

CanRetry == CanRetryAt(retryCount)

\* retryCount++
Incremented_Not(count) == count
Incremented(count) == count + 1

RetryOrGiveUp ==
  IF CanRetry
    THEN /\ UpYield(StatusEvent("reconnecting", 15))
         /\ retryCount' = Incremented(retryCount)
         /\ upc' = "attempt"
    ELSE /\ upc' = "exhausted"
         /\ UNCHANGED <<upOut, retryCount>>

\* the call and its first next(): yield status, progress 10
UpOpen ==
  /\ UpRunning /\ upc = "unopened"
  /\ UpYield(StatusEvent("connecting", 10))
  /\ upc' = "attempt"
  /\ messages' = OpenaiInput
  /\ Log("streamChatCompletion")
  /\ UNCHANGED <<cfgVars, genVars, outVars, retryCount, fullContent, upUsage, upModel,
                 httpAttempts, framesLeft, frameId, conv, coreVars, consVars>>

\* the head of an attempt: yield status, progress 20
UpAttempt ==
  /\ UpRunning /\ upc = "attempt"
  /\ retryCount <= MAX_RETRIES_429
  /\ UpYield(StatusEvent("request_sent", 20))
  /\ upc' = "fetch"
  /\ UNCHANGED <<cfgVars, genVars, outVars, retryCount, fullContent, upUsage, upModel,
                 httpAttempts, framesLeft, upIn, conv, coreVars, oplog, consVars>>

\* await fetch: a 2xx response with a body; the attempt's accumulators start empty
UpFetchOk ==
  /\ UpRunning /\ upc = "fetch"
  /\ httpAttempts' = httpAttempts + 1
  /\ fullContent' = <<>>
  /\ upUsage' = "none"
  /\ upModel' = "none"
  /\ frameId' = "none"
  /\ upc' = "read"
  /\ UNCHANGED <<cfgVars, genVars, outVars, retryCount, upOut, framesLeft, messages,
                 conv, coreVars, oplog, consVars>>

\* await fetch: HTTP 429, retried after a status event while retries remain
UpFetch429 ==
  /\ UpRunning /\ upc = "fetch"
  /\ httpAttempts' = httpAttempts + 1
  /\ IF CanRetry
       THEN /\ UpYield(StatusEvent("rate_limited", 15))
            /\ retryCount' = Incremented(retryCount)
            /\ upc' = "attempt"
       ELSE /\ upc' = "thrown"
            /\ UNCHANGED <<upOut, retryCount>>
  /\ UNCHANGED <<cfgVars, genVars, outVars, fullContent, upUsage, upModel, framesLeft, upIn,
                 conv, coreVars, oplog, consVars>>

\* await fetch: any other non-2xx status, or a response without a body:
\* an OpenAIError, rethrown by the catch
UpFetchHttpError ==
  /\ UpRunning /\ upc = "fetch"
  /\ httpAttempts' = httpAttempts + 1
  /\ upc' = "thrown"
  /\ UNCHANGED <<cfgVars, genVars, outVars, retryCount, fullContent, upUsage, upModel,
                 upOut, framesLeft, upIn, conv, coreVars, oplog, consVars>>

\* await fetch rejects (network failure, timeout)
UpFetchNetworkError ==
  /\ UpRunning /\ upc = "fetch"
  /\ httpAttempts' = httpAttempts + 1
  /\ RetryOrGiveUp
  /\ UNCHANGED <<cfgVars, genVars, outVars, fullContent, upUsage, upModel, framesLeft, upIn,
                 conv, coreVars, oplog, consVars>>

\* a frame response.output_text.delta with a non-empty delta
UpFrameDelta ==
  /\ UpRunning /\ upc = "read" /\ framesLeft > 0
  /\ \E d \in Deltas :
       /\ fullContent' = Append(fullContent, d)
       /\ UpYield(DeltaEvent(d))
  /\ framesLeft' = framesLeft - 1
  /\ UNCHANGED <<cfgVars, genVars, outVars, upc, retryCount, upUsage, upModel, httpAttempts,
                 upIn, conv, coreVars, oplog, consVars>>

\* a frame response.completed: usage (when the response holds one) and model
\* are kept; the frame's response.id is not read
UpFrameCompleted ==
  /\ UpRunning /\ upc = "read" /\ framesLeft > 0
  /\ \E u \in {"none", "usage_1"} : \E m \in {"none", "model_1"} : \E id \in FrameIds :
       /\ upUsage' = IF u # "none" THEN u ELSE upUsage
       /\ upModel' = m
       /\ frameId' = id
  /\ framesLeft' = framesLeft - 1
  /\ UNCHANGED <<cfgVars, genVars, outVars, upc, retryCount, fullContent, upOut, httpAttempts,
                 messages, conv, coreVars, oplog, consVars>>

\* a frame of type error: yield error and return
UpFrameError ==
  /\ UpRunning /\ upc = "read" /\ framesLeft > 0
  /\ UpYield(ErrorEvent("OPENAI_STREAM_ERROR", "provider_error"))
  /\ upc' = "return"
  /\ framesLeft' = framesLeft - 1
  /\ UNCHANGED <<cfgVars, genVars, outVars, retryCount, fullContent, upUsage, upModel,
                 httpAttempts, upIn, conv, coreVars, oplog, consVars>>

\* a line that is skipped: unparseable data, an unknown type, an empty delta
UpFrameSkipped ==
  /\ UpRunning /\ upc = "read" /\ framesLeft > 0
  /\ framesLeft' = framesLeft - 1
  /\ UNCHANGED <<cfgVars, genVars, outVars, upc, retryCount, fullContent, upUsage, upModel,
                 upOut, httpAttempts, upIn, conv, coreVars, oplog, consVars>>

\* reader.read() rejects in the middle of the body
UpReadError ==
  /\ UpRunning /\ upc = "read"
  /\ RetryOrGiveUp
  /\ UNCHANGED <<cfgVars, genVars, outVars, fullContent, upUsage, upModel, httpAttempts,
                 framesLeft, upIn, conv, coreVars, oplog, consVars>>

\* the body ends: yield done with the attempt's content, usage and model
UpBodyEnd ==
  /\ UpRunning /\ upc = "read"
  /\ UpYield(UpDoneEvent(fullContent, upUsage, OrElse(upModel, CONFIG_MODEL)))
  /\ upc' = "return"
  /\ UNCHANGED <<cfgVars, genVars, outVars, retryCount, fullContent, upUsage, upModel,
                 httpAttempts, framesLeft, upIn, conv, coreVars, oplog, consVars>>

\* all retries exhausted: yield error OPENAI_UNAVAILABLE as the last statement
UpExhausted ==
  /\ UpRunning /\ upc = "exhausted"
  /\ UpYield(ErrorEvent("OPENAI_UNAVAILABLE", "model_unavailable"))
  /\ upc' = "return"
  /\ UNCHANGED <<cfgVars, genVars, outVars, retryCount, fullContent, upUsage, upModel,
                 httpAttempts, framesLeft, upIn, conv, coreVars, oplog, consVars>>

\* return after the done event
UpReturn ==
  /\ UpRunning /\ upc = "return"
  /\ upc' = "returned"
  /\ UNCHANGED <<cfgVars, genVars, outVars, retryCount, fullContent, upUsage, upModel,
                 upOut, httpAttempts, framesLeft, upIn, conv, coreVars, oplog, consVars>>

UpstreamNext ==
  \/ UpOpen \/ UpAttempt
  \/ UpFetchOk \/ UpFetch429 \/ UpFetchHttpError \/ UpFetchNetworkError
  \/ UpFrameDelta \/ UpFrameCompleted \/ UpFrameError \/ UpFrameSkipped
  \/ UpReadError \/ UpBodyEnd \/ UpExhausted \/ UpReturn

\* ------------------------------------- sendMessageStream: the upstream loop
\* text_delta and status events are yielded on
ForwardEvent_Dropping ==
  /\ Running /\ pc = "upstream"
  /\ upOut.type \in {"text_delta", "status"}
  /\ upOut' = NoEvent
  /\ UNCHANGED <<cfgVars, genVars, outVars, upc, retryCount, fullContent, upUsage, upModel,
                 httpAttempts, framesLeft, upIn, conv, coreVars, oplog, consVars>>

ForwardEvent ==
  /\ Running /\ pc = "upstream"
  /\ upOut.type \in {"text_delta", "status"}
  /\ Yield(IF upOut.type = "text_delta"
             THEN DeltaEvent(upOut.delta)
             ELSE StatusEvent(upOut.status, upOut.progress))
  /\ upOut' = NoEvent
  /\ UNCHANGED <<cfgVars, genVars, upc, retryCount, fullContent, upUsage, upModel,
                 httpAttempts, framesLeft, upIn, conv, coreVars, oplog, consVars>>

\* the done event is kept, not yielded
TakeDone ==
  /\ Running /\ pc = "upstream"
  /\ upOut.type = "done"
  /\ finalContent' = upOut.content
  /\ finalUsage' = upOut.usage
  /\ finalModel' = upOut.model
  /\ finalResponseId' = upOut.responseId
  /\ aiSucceeded' = TRUE
  /\ upOut' = NoEvent
  /\ UNCHANGED <<cfgVars, pc, gstate, billingStarted, finalMessage, lastResponseId,
                 outVars, upc, retryCount, fullContent, upUsage, upModel,
                 httpAttempts, framesLeft, upIn, conv, coreVars, oplog, consVars>>

\* the error event is yielded on; the rollback comes after the yield
ForwardError ==
  /\ Running /\ pc = "upstream"
  /\ upOut.type = "error"
  /\ Yield(ErrorEvent(upOut.errorCode, upOut.errorMessage))
  /\ upOut' = NoEvent
  /\ pc' = "rollbackAfterError"
  /\ UNCHANGED <<cfgVars, gstate, billingStarted, finalMessage, lastResponseId,
                 finalContent, finalUsage, finalModel, finalResponseId, aiSucceeded,
                 upc, retryCount, fullContent, upUsage, upModel,
                 httpAttempts, framesLeft, upIn, conv, coreVars, oplog, consVars>>

\* a rollback that is not guarded by billingStarted
RollbackOnFailure_Unguarded == TRUE

\* the guard of the two rollbacks of a failed generation
RollbackOnFailure == billingStarted

\* a billingFinish call that is not wrapped in try/catch
CatchesSettlementFailure_Missing == FALSE

\* every billingFinish call is wrapped in a try whose catch only logs
CatchesSettlementFailure == TRUE

\* the rejection of a billingFinish call leaves the generator as an exception
SettlementEscapes == finishThrew' /\ ~CatchesSettlementFailure

\* resumed after the yielded error: rollback, then return, which also ends
\* the upstream generator
RollbackAfterError ==
  /\ Running /\ pc = "rollbackAfterError"
  /\ IF RollbackOnFailure
       THEN BillingFinish("rollback", "none", "none")
       ELSE UNCHANGED <<finishReqs, finishThrew, oplog>>
  /\ gstate' = IF SettlementEscapes THEN "thrown" ELSE "returned"
  /\ pc' = "end"
  /\ upc' = "closed"
  /\ UNCHANGED <<cfgVars, billingStarted, finalMessage, lastResponseId,
                 finalContent, finalUsage, finalModel, finalResponseId, aiSucceeded,
                 outVars, retryCount, fullContent, upUsage, upModel, upOut,
                 httpAttempts, framesLeft, upIn, conv, startCalls, startOutcome, denyReason, consVars>>

\* catch of the streaming loop: rollback, then yield AI_ERROR
UpstreamThrew ==
  /\ Running /\ pc = "upstream"
  /\ upc = "thrown"
  /\ IF RollbackOnFailure
       THEN BillingFinish("rollback", "none", "none")
       ELSE UNCHANGED <<finishReqs, finishThrew, oplog>>
  /\ IF SettlementEscapes
       THEN pc' = "end" /\ gstate' = "thrown" /\ UNCHANGED outVars
       ELSE pc' = "return" /\ gstate' = gstate /\ Yield(ErrorEvent("AI_ERROR", "generation_failed"))
  /\ UNCHANGED <<cfgVars, billingStarted, finalMessage, lastResponseId,
                 finalContent, finalUsage, finalModel, finalResponseId, aiSucceeded,
                 upVars, conv, startCalls, startOutcome, denyReason, consVars>>

\* the for-await loop ends when the upstream generator has returned
UpstreamEnded ==
  /\ Running /\ pc = "upstream"
  /\ upc = "returned"
  /\ pc' = "persistAssistant"
  /\ UNCHANGED <<cfgVars, gstate, billingStarted, finalMessage, lastResponseId,
                 finalContent, finalUsage, finalModel, finalResponseId, aiSucceeded,
                 outVars, upVars, conv, coreVars, oplog, consVars>>

\* 6. the guard of the assistant turn's addMessage
ShouldPersistAssistant == aiSucceeded /\ finalContent # <<>>

\* 6. if (aiSucceeded && finalContent) await storageService.addMessage(...
\* 'assistant', finalContent, undefined, finalResponseId): not caught
PersistAssistant ==
  /\ Running /\ pc = "persistAssistant"
  /\ IF ShouldPersistAssistant
       THEN /\ \E how \in AddMessageOutcomes(conv) :
                 IF how = "ok"
                   THEN /\ conv' = AddMessageOk(conv, "assistant", finalContent)
                        /\ pc' = "settle"
                        /\ gstate' = gstate
                   ELSE /\ conv' = AddMessageFailed(conv, how)
                        /\ pc' = "end"
                        /\ gstate' = "thrown"
            /\ Log("addMessage:assistant")
       ELSE /\ pc' = "settle"
            /\ UNCHANGED <<conv, gstate, oplog>>
  /\ UNCHANGED <<cfgVars, billingStarted, finalMessage, lastResponseId,
                 finalContent, finalUsage, finalModel, finalResponseId, aiSucceeded,
                 outVars, upVars, coreVars, consVars>>

\* 6. the guards of the settlement after the loop
CommitCond == billingStarted /\ aiSucceeded /\ finalUsage # "none"
RollbackCond == billingStarted /\ ~aiSucceeded

\* 6. billingFinish commit, else rollback, else nothing; failures are logged
Settle ==
  /\ Running /\ pc = "settle"
  /\ IF CommitCond
       THEN BillingFinish("commit", finalUsage, finalModel)
       ELSE IF RollbackCond
         THEN BillingFinish("rollback", "none", "none")
         ELSE UNCHANGED <<finishReqs, finishThrew, oplog>>
  /\ IF SettlementEscapes
       THEN pc' = "end" /\ gstate' = "thrown"
       ELSE pc' = "yieldDone" /\ gstate' = gstate
  /\ UNCHANGED <<cfgVars, billingStarted, finalMessage, lastResponseId,
                 finalContent, finalUsage, finalModel, finalResponseId, aiSucceeded,
                 outVars, upVars, conv, startCalls, startOutcome, denyReason, consVars>>

\* yield { type: 'done', content, usage, responseId }
YieldDone ==
  /\ Running /\ pc = "yieldDone"
  /\ Yield(DoneEvent(finalContent, finalUsage, finalResponseId))
  /\ Log("yield:done")
  /\ pc' = "return"
  /\ UNCHANGED <<cfgVars, gstate, billingStarted, finalMessage, lastResponseId,
                 finalContent, finalUsage, finalModel, finalResponseId, aiSucceeded,
                 upVars, conv, coreVars, consVars>>

GeneratorNext ==
  \/ StatusBalance
  \/ BillingStartAllowed \/ BillingStartDenied \/ BillingStartFailed
  \/ Return
  \/ StatusLoading \/ LoadConversation \/ PersistUser \/ ReadLastResponseId
  \/ ForwardEvent \/ TakeDone \/ ForwardError \/ RollbackAfterError
  \/ UpstreamThrew \/ UpstreamEnded
  \/ PersistAssistant \/ Settle \/ YieldDone

\* ------------------------------------------------------------- consumers
\* return() on the generator suspended at a yield: it ends there, and the
\* upstream generator it is iterating ends with it
CloseGenerator ==
  /\ gstate' = "closed"
  /\ upc' = IF pc \in {"upstream", "rollbackAfterError"} /\ upc \notin {"returned", "thrown"}
              THEN "closed" ELSE upc

\* sendSSE: nothing is written once the response has ended
SendSSE(e) == IF resEnded THEN wire ELSE Append(wire, [event |-> e.type, data |-> e])

LastEvent == events[Len(events)]

\* POST /api/chat/stream, the loop body for a connected client
SseWrite ==
  /\ consumer = "sse" /\ cstate = "iterating" /\ pending
  /\ ~clientDisconnected
  /\ wire' = SendSSE(LastEvent)
  /\ pending' = FALSE
  /\ UNCHANGED <<cfgVars, genVars, events, upVars, conv, coreVars, oplog,
                 cstate, clientDisconnected, resEnded, syncResult>>

\* if (clientDisconnected) break; then res.end()
SseBreak ==
  /\ consumer = "sse" /\ cstate = "iterating" /\ pending
  /\ clientDisconnected
  /\ CloseGenerator
  /\ pending' = FALSE
  /\ resEnded' = TRUE
  /\ cstate' = "done"
  /\ UNCHANGED <<cfgVars, pc, billingStarted, finalMessage, lastResponseId,
                 finalContent, finalUsage, finalModel, finalResponseId, aiSucceeded,
                 events, retryCount, fullContent, upUsage, upModel, upOut, httpAttempts,
                 framesLeft, upIn, conv, coreVars, oplog, clientDisconnected, wire, syncResult>>

\* the loop ends with the generator; res.end()
SseEnd ==
  /\ consumer = "sse" /\ cstate = "iterating" /\ ~pending
  /\ gstate = "returned"
  /\ resEnded' = TRUE
  /\ cstate' = "done"
  /\ UNCHANGED <<cfgVars, genVars, outVars, upVars, conv, coreVars, oplog,
                 clientDisconnected, wire, syncResult>>

\* catch: the generator threw after the headers were sent
SseCatch ==
  /\ consumer = "sse" /\ cstate = "iterating" /\ ~pending
  /\ gstate = "thrown"
  /\ wire' = SendSSE(ErrorEvent("INTERNAL_ERROR", "internal_error"))
  /\ resEnded' = TRUE
  /\ cstate' = "done"
  /\ UNCHANGED <<cfgVars, genVars, outVars, upVars, conv, coreVars, oplog,
                 clientDisconnected, syncResult>>

\* res.on('close'): the client goes away while the response is open. The
\* flag is read only at the head of the loop body and the catch does not
\* read it, so the callback is placed at the last point before either: when
\* an event is waiting to be taken, or when the generator has thrown.
ClientDisconnect ==
  /\ consumer = "sse" /\ cstate = "iterating" /\ ~resEnded /\ ~clientDisconnected
  /\ pending \/ gstate = "thrown"
  /\ clientDisconnected' = TRUE
  /\ UNCHANGED <<cfgVars, genVars, outVars, upVars, conv, coreVars, oplog,
                 cstate, wire, resEnded, syncResult>>

\* sendMessage, the loop body: done is recorded, status and text_delta ignored
SyncTake ==
  /\ consumer = "sync" /\ cstate = "iterating" /\ pending
  /\ LastEvent.type # "error"
  /\ syncResult' = IF LastEvent.type = "done"
                     THEN [syncResult EXCEPT !.content = LastEvent.content,
                                             !.usage = LastEvent.usage]
                     ELSE syncResult
  /\ pending' = FALSE
  /\ UNCHANGED <<cfgVars, genVars, events, upVars, conv, coreVars, oplog,
                 cstate, clientDisconnected, wire, resEnded>>

\* sendMessage on an error event: throw new ChatError(code, message, 500);
\* leaving the loop by a throw calls return() on the generator
SyncThrow ==
  /\ consumer = "sync" /\ cstate = "iterating" /\ pending
  /\ LastEvent.type = "error"
  /\ syncResult' = [syncResult EXCEPT !.status = "ChatError",
                                      !.code = OrElse(LastEvent.errorCode, "CHAT_ERROR"),
                                      !.message = OrElse(LastEvent.errorMessage, "generation_failed")]
  /\ CloseGenerator
  /\ pending' = FALSE
  /\ cstate' = "done"
  /\ UNCHANGED <<cfgVars, pc, billingStarted, finalMessage, lastResponseId,
                 finalContent, finalUsage, finalModel, finalResponseId, aiSucceeded,
                 events, retryCount, fullContent, upUsage, upModel, upOut, httpAttempts,
                 framesLeft, upIn, conv, coreVars, oplog, clientDisconnected, wire, resEnded>>

\* sendMessage returns { content, usage } when the generator has returned
SyncReturn ==
  /\ consumer = "sync" /\ cstate = "iterating" /\ ~pending
  /\ gstate = "returned"
  /\ syncResult' = [syncResult EXCEPT !.status = "returned"]
  /\ cstate' = "done"
  /\ UNCHANGED <<cfgVars, genVars, outVars, upVars, conv, coreVars, oplog,
                 clientDisconnected, wire, resEnded>>

\* an exception of the generator passes through sendMessage as it is
SyncRethrow ==
  /\ consumer = "sync" /\ cstate = "iterating" /\ ~pending
  /\ gstate = "thrown"
  /\ syncResult' = [syncResult EXCEPT !.status = "exception"]
  /\ cstate' = "done"
  /\ UNCHANGED <<cfgVars, genVars, outVars, upVars, conv, coreVars, oplog,
                 clientDisconnected, wire, resEnded>>

ConsumerNext ==
  \/ SseWrite \/ SseBreak \/ SseEnd \/ SseCatch \/ ClientDisconnect
  \/ SyncTake \/ SyncThrow \/ SyncReturn \/ SyncRethrow

Next == GeneratorNext \/ UpstreamNext \/ ConsumerNext

Spec == Init /\ [][Next]_vars

\* The event loop resumes every continuation whose awaited call has settled,
\* and both consumers ask for the next event until the generator ends: a step
\* that stays possible is taken. Every fetch and every file operation is a
\* step with an outcome, and a response body has at most MaxFrames frames.
FairSpec == Spec /\ WF_vars(Next)

\* ------------------------- streamChatCompletion, one call run to its end
\* The frames of a response body, as the parser tells them apart.
UpFrames ==
  {[type |-> "delta", delta |-> d, usage |-> "none", model |-> "none"] : d \in Deltas}
    \cup {[type |-> "completed", delta |-> "", usage |-> u, model |-> m] :
            u \in {"none", "usage_1"}, m \in {"none", "model_1"}}
    \cup {[type |-> t, delta |-> "", usage |-> "none", model |-> "none"] :
            t \in {"error", "unparseable", "unknown"}}

\* the bodies of at most MaxFrames frames
FrameSeqs == UNION {[1..n -> UpFrames] : n \in 0..MaxFrames}

\* the statuses of the non-2xx responses that are not rate limits
HttpErrors == {400, 500}

\* what one attempt meets: HTTP 429, another non-2xx status, a 2xx response
\* without a body, a rejected fetch (network failure, timeout; a non-2xx
\* response whose text cannot be read ends in the same catch), or a 2xx body
\* that ends or whose reading rejects after its frames
UpAnswers ==
  {[kind |-> "429", status |-> 429, frames |-> <<>>, ending |-> "none"]}
    \cup {[kind |-> "http", status |-> st, frames |-> <<>>, ending |-> "none"] : st \in HttpErrors}
    \cup {[kind |-> k, status |-> 0, frames |-> <<>>, ending |-> "none"] : k \in {"nobody", "net"}}
    \cup {[kind |-> "body", status |-> 200, frames |-> f, ending |-> e] :
            f \in FrameSeqs, e \in {"end", "readError"}}

\* the first attempt meets answers.first, every later attempt answers.rest
AnswerAt(script, count) == IF count = 0 THEN script.first ELSE script.rest

\* the accumulators of one attempt
NoBody == [events |-> <<>>, fullContent |-> <<>>, finalUsage |-> "none",
           finalModel |-> "none", errored |-> FALSE]

\* a frame the loop passes over: its data makes JSON.parse throw into the
\* empty catch, or its parsed.type matches none of the three branches
Skipped_UnknownOnly(f) == f.type = "unknown"
Skipped(f) == f.type \in {"unparseable", "unknown"}

\* the return that follows the yield of the error event of an error frame
ReturnsAfter_Never(f) == FALSE
ReturnsAfter(f) == f.type = "error"

\* the loop over the frames of a body; an error frame ends the call
RECURSIVE ReadBody(_, _)
ReadBody(frames, acc) ==
  IF frames = <<>> THEN acc
  ELSE LET f == Head(frames) IN
    CASE Skipped(f) -> ReadBody(Tail(frames), acc)
      [] f.type = "delta" ->
           ReadBody(Tail(frames), [acc EXCEPT !.events = Append(@, DeltaEvent(f.delta)),
                                              !.fullContent = Append(@, f.delta)])
      [] f.type = "completed" ->
           ReadBody(Tail(frames), [acc EXCEPT !.finalUsage = IF f.usage # "none" THEN f.usage ELSE @,
                                              !.finalModel = f.model])
      [] OTHER ->
           LET told == [acc EXCEPT !.events = Append(@, ErrorEvent("OPENAI_STREAM_ERROR",
                                                                    "provider_error"))]
           IN IF ReturnsAfter(f) THEN [told EXCEPT !.errored = TRUE]
              ELSE ReadBody(Tail(frames), told)

\* new OpenAIError(code, message, httpStatus), and no error
OpenAIError(code, st) == [name |-> "OpenAIError", code |-> code, httpStatus |-> st]
NotThrown == [name |-> "none", code |-> "none", httpStatus |-> 0]
\* the rejection of fetch or of reader.read(): an error that is no OpenAIError
FetchFailed == [name |-> "TypeError", code |-> "none", httpStatus |-> 0]
\* the catch of the attempt loop: if (error instanceof OpenAIError) throw error
Rethrown_Never(err) == FALSE
Rethrown(err) == err.name = "OpenAIError"
\* a call at its end: the events it yielded, the error it threw, the number
\* of fetch calls it made
UpOutcome(evs, err, n) ==
  [called |-> TRUE, events |-> evs, threw |-> err # NotThrown, error |-> err, attempts |-> n]
Emitted(evs, outcome) == [outcome EXCEPT !.events = evs \o @]

\* response.status === 429 && retryCount < MAX_RETRIES_429
RateLimitRetry_OneMore(count) == count <= MAX_RETRIES_429
RateLimitRetry(count) == CanRetryAt(count)

\* the attempt loop from attempt number count on: the events yielded and
\* whether the call ended by an exception
RECURSIVE Attempts(_, _)
Attempts(script, count) ==
  LET a == AnswerAt(script, count)
      sent == <<StatusEvent("request_sent", 20)>>
      unavailable == <<ErrorEvent("OPENAI_UNAVAILABLE", "model_unavailable")>>
      body == ReadBody(a.frames, NoBody)
      n == count + 1
      again(evs) ==
        IF CanRetryAt(count)
          THEN Emitted(evs \o <<StatusEvent("reconnecting", 15)>>, Attempts(script, count + 1))
          ELSE UpOutcome(evs \o unavailable, NotThrown, n)
      caught(err, evs) == IF Rethrown(err) THEN UpOutcome(evs, err, n) ELSE again(evs)
  IN CASE a.kind = "429" ->
            IF RateLimitRetry(count)
              THEN Emitted(sent \o <<StatusEvent("rate_limited", 15)>>, Attempts(script, count + 1))
              ELSE caught(OpenAIError("OPENAI_API_ERROR", a.status), sent)
       [] a.kind = "http" -> caught(OpenAIError("OPENAI_API_ERROR", a.status), sent)
       [] a.kind = "nobody" -> caught(OpenAIError("NO_STREAM", 500), sent)
       [] a.kind = "net" -> caught(FetchFailed, sent)
       [] OTHER ->
            IF body.errored THEN UpOutcome(sent \o body.events, NotThrown, n)
            ELSE IF a.ending = "readError" THEN caught(FetchFailed, sent \o body.events)
            ELSE UpOutcome(sent \o body.events
                             \o <<UpDoneEvent(body.fullContent, body.finalUsage,
                                              OrElse(body.finalModel, CONFIG_MODEL))>>, NotThrown, n)

\* streamChatCompletion(messages, requestId) drained by its caller
StreamChatCompletion(script) ==
  Emitted(<<StatusEvent("connecting", 10)>>, Attempts(script, 0))

\* every variable of the lifecycle, and a lifecycle that is not run
lifecycleVars == <<nodeEnv, consumer, hasContext, genVars, outVars, upVars, conv,
                   coreVars, oplog, consVars>>
LifecycleIdle ==
  /\ LifecycleInit
  /\ nodeEnv = "production" /\ consumer = "sse" /\ ~hasContext /\ conv = NoConversation

UpCallInit ==
  /\ LifecycleIdle
  /\ answers \in [first : UpAnswers, rest : UpAnswers]
  /\ upResult = NoCall
  /\ coreOp = "none" /\ coreAnswers = NoAnswers /\ coreResult = NoCall
  /\ store = NoStore /\ now = 0 /\ storeOut = NoOut
  /\ request = NoRequest /\ response = NoResponse /\ page = NoPage /\ life = NoLives

\* the loop of sendMessageStream over the events of the call: text_delta and
\* status events are yielded on, done is kept, error is yielded on and ends
\* the generator
RECURSIVE ForAwait(_, _)
ForAwait(evs, out) ==
  IF evs = <<>> THEN out
  ELSE LET e == Head(evs) IN
    CASE e.type = "text_delta" -> ForAwait(Tail(evs), Append(out, DeltaEvent(e.delta)))
      [] e.type = "status" -> ForAwait(Tail(evs), Append(out, StatusEvent(e.status, e.progress)))
      [] e.type = "error" -> Append(out, ErrorEvent(e.errorCode, e.errorMessage))
      [] OTHER -> ForAwait(Tail(evs), out)

\* the events sendMessageStream yields from its try over the call, and from
\* its catch when the call throws
StreamingLoop(up) ==
  IF up.threw
    THEN ForAwait(up.events, <<>>) \o <<ErrorEvent("AI_ERROR", "generation_failed")>>
    ELSE ForAwait(up.events, <<>>)

\* for await (const event of streamChatCompletion(...)), to its end
DrainStreamChatCompletion ==
  /\ ~upResult.called
  /\ LET up == StreamChatCompletion(answers)
     IN upResult' = up @@ [yielded |-> StreamingLoop(up)]
  /\ UNCHANGED <<lifecycleVars, answers, coreCallVars, storeVars, routeVars, pairVars>>

UpCallNext == DrainStreamChatCompletion

UpCallSpec == UpCallInit /\ [][UpCallNext]_vars

\* ------------------------------- CoreClient.request, one call to its end
\* the operations of the Billing Gateway Client; each awaits request() once
CoreOps == {"billingStart", "billingFinish", "getBalance"}

\* what one attempt meets: a response with a status and a body (the JSON of
\* the operation, a JSON error object, JSON without an error field, or text
\* that is not JSON), a fetch rejected with a TypeError (network failure), or
\* a fetch aborted by its timeout signal
CoreAnswers ==
  {[kind |-> "response", status |-> 200, body |-> b] : b \in {"data", "notjson"}}
    \cup {[kind |-> "response", status |-> st, body |-> b] :
            st \in {400, 500}, b \in {"error", "bare", "notjson"}}
    \cup {[kind |-> k, status |-> 0, body |-> "none"] : k \in {"network", "timeout"}}

\* the correlation identifiers a caller passes
RequestIds == {"req_1", "req_2"}

\* private maxRetries = config.nodeEnv === 'development' ? 1 : 3
MaxRetries(env) == IF env = "development" THEN 1 ELSE 3

NoError == [name |-> "none", code |-> "none", message |-> "none", httpStatus |-> 0]
\* a call at its end: ids holds the X-Request-Id header of each fetch, delays
\* the milliseconds of each sleep between two of them
CoreReturned(n) ==
  [called |-> TRUE, ok |-> TRUE, error |-> NoError, attempts |-> n, ids |-> <<>>, delays |-> <<>>]
CoreThrown(e, n) ==
  [called |-> TRUE, ok |-> FALSE, error |-> e, attempts |-> n, ids |-> <<>>, delays |-> <<>>]
\* new CoreApiError(code, message, httpStatus)
CoreApiError(code, message, st) ==
  [name |-> "CoreApiError", code |-> code, message |-> message, httpStatus |-> st]
\* an error that is no CoreApiError: it has a name and a message only
PlainError(name) == [NoError EXCEPT !.name = name, !.message = "cause"]

\* headers['X-Request-Id'] = requestId, then fetch(url, {method, headers, ...})
Fetched(requestId, outcome) == [outcome EXCEPT !.ids = <<requestId>> \o @]
\* await this.sleep(delay), then the outcome of the call that follows
Slept(delay, outcome) == [outcome EXCEPT !.delays = <<delay>> \o @]
\* this.baseDelay * Math.pow(2, retryCount)
Backoff(count) == baseDelay * 2^count
\* retryCount < this.maxRetries
MayRetry_OneMore(count, maxRetries) == count <= maxRetries
MayRetry(count, maxRetries) == count < maxRetries

\* request(method, endpoint, body, requestId, retryCount = count)
RECURSIVE Request(_, _, _, _)
Request(script, requestId, count, maxRetries) ==
  LET a == AnswerAt(script, count)
      n == count + 1
      errorCode == IF a.body = "error" THEN "E_CODE" ELSE "UNKNOWN_ERROR"
      errorMessage == IF a.body = "error" THEN "e_message" ELSE "HTTP status"
      again == Slept(Backoff(count), Request(script, requestId, count + 1, maxRetries))
  IN Fetched(requestId,
       CASE a.kind = "network" ->
              IF MayRetry(count, maxRetries)
                THEN again
                ELSE CoreThrown(PlainError("TypeError"), n)
         [] a.kind = "timeout" -> CoreThrown(PlainError("TimeoutError"), n)
         [] a.body = "notjson" -> CoreThrown(PlainError("SyntaxError"), n)
         [] a.status >= 400 ->
              IF a.status >= 500 /\ MayRetry(count, maxRetries)
                THEN again
                ELSE CoreThrown(CoreApiError(errorCode, errorMessage, a.status), n)
         [] OTHER -> CoreReturned(n))

CoreCallInit ==
  /\ LifecycleInit
  /\ consumer = "sse" /\ ~hasContext /\ conv = NoConversation
  /\ answers = NoAnswers /\ upResult = NoCall
  /\ store = NoStore /\ now = 0 /\ storeOut = NoOut
  /\ request = NoRequest /\ response = NoResponse /\ page = NoPage /\ life = NoLives
  /\ coreOp \in CoreOps
  /\ coreAnswers \in [first : CoreAnswers, rest : CoreAnswers]
  /\ coreResult = NoCall

\* billingStart, billingFinish, getBalance: await this.request(...)
CallCore ==
  /\ ~coreResult.called
  /\ \E requestId \in RequestIds :
       coreResult' = Request(coreAnswers, requestId, 0, MaxRetries(nodeEnv))
  /\ UNCHANGED <<lifecycleVars, upCallVars, storeVars, routeVars, pairVars, coreOp, coreAnswers>>

CoreCallNext == CallCore

CoreCallSpec == CoreCallInit /\ [][CoreCallNext]_vars

\* -------------------------------- StorageService, operation by operation
\* createConversation writes a conversation without messages, created now
NewFile(t) == [conv |-> EmptyConversation, created_at |-> t, updated_at |-> t]
OnDisk(f) == f.conv.exists
\* readFile and JSON.parse succeed on the file
Readable_Always(f) == f.conv.exists
Readable(f) == GetConversation(f.conv).exists
\* a file whose readFile rejects is seen as one that JSON.parse rejects
Unread(c) == [c EXCEPT !.corrupt = TRUE]
WithFile(st, s, f) == [dir |-> TRUE, files |-> [st.files EXCEPT ![s] = f]]
Out(op, s) == [NoOut EXCEPT !.op = op, !.session = s]
\* the content a message of a role is given here
ContentOf(role) == IF role = "user" THEN MESSAGE ELSE <<"r">>

StoreInit ==
  /\ LifecycleIdle
  /\ answers = NoAnswers /\ upResult = NoCall
  /\ coreOp = "none" /\ coreAnswers = NoAnswers /\ coreResult = NoCall
  /\ request = NoRequest /\ response = NoResponse /\ page = NoPage /\ life = NoLives
  /\ \E fs \in [Sessions -> {AbsentFile, CorruptFile}] : \E d \in BOOLEAN :
       /\ (\E s \in Sessions : OnDisk(fs[s])) => d
       /\ store = [dir |-> d, files |-> fs]
  /\ now = 0
  /\ storeOut = NoOut

\* ChatService.createSession: createConversation under a session id that
\* CORE has just allocated (or a fresh local one); mkdir or writeFile may reject
CreateSession(s) ==
  /\ ~OnDisk(store.files[s])
  /\ \E ok \in BOOLEAN :
       /\ store' = IF ok THEN WithFile(store, s, NewFile(now)) ELSE store
       /\ storeOut' = [Out("createConversation", s) EXCEPT !.resolved = ok]
  /\ UNCHANGED <<lifecycleVars, upCallVars, coreCallVars, routeVars, pairVars, now>>

\* addMessage(userId, sessionId, role, content): getConversation (null when
\* the read or the parse fails), createConversation when null, push, title,
\* saveConversation
AddMessage(s, role, content) ==
  LET f == store.files[s] IN
  /\ Len(f.conv.messages) < MaxStored
  /\ \E readOk \in BOOLEAN :
       LET seen == IF readOk THEN f.conv ELSE Unread(f.conv)
           got == GetConversation(seen)
       IN \E how \in AddMessageOutcomes(seen) :
            /\ store' =
                 CASE how = "ok" ->
                        WithFile(store, s, [conv |-> AddMessageOk(seen, role, content),
                                            created_at |-> IF got.exists THEN f.created_at ELSE now,
                                            updated_at |-> now])
                   [] how = "save" /\ ~got.exists -> WithFile(store, s, NewFile(now))
                   [] OTHER -> store
            /\ storeOut' = [Out("addMessage", s) EXCEPT !.role = role, !.content = content,
                                                        !.resolved = (how = "ok")]
  /\ UNCHANGED <<lifecycleVars, upCallVars, coreCallVars, routeVars, pairVars, now>>

\* the call with the text this specification gives a message of the role
StoreAddMessage(s, role) == AddMessage(s, role, ContentOf(role))

\* getConversation(userId, sessionId)
StoreGetConversation(s) ==
  /\ storeOut' = [Out("getConversation", s) EXCEPT !.conv = GetConversation(store.files[s].conv)]
  /\ UNCHANGED <<lifecycleVars, upCallVars, coreCallVars, routeVars, pairVars, store, now>>

Summary(s) ==
  LET f == store.files[s] IN
  [session_id |-> s, title |-> f.conv.title, message_count |-> Len(f.conv.messages),
   created_at |-> f.created_at, updated_at |-> f.updated_at]

\* Array.prototype.sort by updated_at, newest first; equal keys keep their order
RECURSIVE InsertByUpdated(_, _)
InsertByUpdated(sorted, x) ==
  IF sorted = <<>> THEN <<x>>
  ELSE IF x.updated_at > Head(sorted).updated_at THEN <<x>> \o sorted
  ELSE <<Head(sorted)>> \o InsertByUpdated(Tail(sorted), x)
RECURSIVE SortByUpdated(_)
SortByUpdated(seq) ==
  IF seq = <<>> THEN <<>>
  ELSE InsertByUpdated(SortByUpdated(SubSeq(seq, 1, Len(seq) - 1)), seq[Len(seq)])

\* getUserConversations(userId, days): the readable files created inside the
\* window, as summaries; [] when the directory cannot be read
GetUserConversations_ByUpdate(days) ==
  IF ~store.dir THEN <<>>
  ELSE LET inWindow(s) == Readable(store.files[s]) /\ store.files[s].updated_at >= now - days
           kept == SelectSeq(SessionOrder, inWindow)
       IN SortByUpdated([i \in 1..Len(kept) |-> Summary(kept[i])])
GetUserConversations(days) ==
  IF ~store.dir THEN <<>>
  ELSE LET inWindow(s) == Readable(store.files[s]) /\ store.files[s].created_at >= now - days
           kept == SelectSeq(SessionOrder, inWindow)
       IN SortByUpdated([i \in 1..Len(kept) |-> Summary(kept[i])])

StoreGetUserConversations ==
  /\ storeOut' = [Out("getUserConversations", "none") EXCEPT !.list = GetUserConversations(LIST_DAYS)]
  /\ UNCHANGED <<lifecycleVars, upCallVars, coreCallVars, routeVars, pairVars, store, now>>

\* exportToMarkdown: the turns of the conversation, each under the heading of
\* its role; null when getConversation gives null
ExportToMarkdown(c) ==
  LET got == GetConversation(c)
  IN [i \in 1..Len(got.messages) |-> [heading |-> got.messages[i].role, text |-> got.messages[i].content]]

StoreExportToMarkdown(s) ==
  /\ storeOut' = [Out("exportToMarkdown", s) EXCEPT
                    !.conv = GetConversation(store.files[s].conv),
                    !.doc = ExportToMarkdown(store.files[s].conv)]
  /\ UNCHANGED <<lifecycleVars, upCallVars, coreCallVars, routeVars, pairVars, store, now>>

\* new Date(conv.updated_at || conv.created_at) < cutoffDate
Expired_ByCreation(f) == f.created_at < now - CONVERSATION_TTL_DAYS
Expired(f) == f.updated_at < now - CONVERSATION_TTL_DAYS
Swept(f) == Readable(f) /\ Expired(f)

\* cleanupOldConversations: unlink every readable expired file, then rmdir
\* the directory when nothing remains in it
CleanupOldConversations ==
  /\ store.dir
  /\ LET kept == [s \in Sessions |-> IF Swept(store.files[s]) THEN AbsentFile ELSE store.files[s]]
     IN /\ store' = [dir |-> \E s \in Sessions : OnDisk(kept[s]), files |-> kept]
        /\ storeOut' = [Out("cleanupOldConversations", "none") EXCEPT
                          !.count = Cardinality({s \in Sessions : Swept(store.files[s])})]
  /\ UNCHANGED <<lifecycleVars, upCallVars, coreCallVars, routeVars, pairVars, now>>

\* the retention time passes, to the day or by one day more
Tick ==
  /\ \E d \in {CONVERSATION_TTL_DAYS, CONVERSATION_TTL_DAYS + 1} :
       /\ now + d <= MaxTicks * (CONVERSATION_TTL_DAYS + 1)
       /\ now' = now + d
  /\ UNCHANGED <<lifecycleVars, upCallVars, coreCallVars, routeVars, pairVars, store, storeOut>>

StoreNext ==
  \/ \E s \in Sessions : CreateSession(s)
  \/ \E s \in Sessions : \E role \in {"user", "assistant"} : StoreAddMessage(s, role)
  \/ \E s \in Sessions : StoreGetConversation(s)
  \/ StoreGetUserConversations
  \/ \E s \in Sessions : StoreExportToMarkdown(s)
  \/ CleanupOldConversations
  \/ Tick

StoreSpec == StoreInit /\ [][StoreNext]_vars

\* --------------------------- StorageService.addMessage, text after text
\* a text of one character more than a title holds
LongMessage == [i \in 1..(TITLE_LEN + 1) |-> "q"]
\* the texts of a message: a user may send a short text, a long one, or the
\* very text createConversation gives a title
Contents(role) ==
  IF role = "user" THEN {MESSAGE, LongMessage, DEFAULT_TITLE} ELSE {ContentOf(role)}

TitleNext ==
  \E s \in Sessions : \E role \in {"user", "assistant"} : \E content \in Contents(role) :
    AddMessage(s, role, content)

TitleSpec == StoreInit /\ [][TitleNext]_vars

\* ------------------------------------ the send-message routes, one request
\* the three routes that send a message
SendRoutes == {"/api/chat/send", "/api/chat/stream", "/api/conversations/:sessionId/messages"}
\* a text as its characters; "undefined" is a body without the field
Chars == {" ", "q"}
Texts == UNION {[1..n -> Chars] : n \in 0..2}
\* String.prototype.trim
RECURSIVE TrimStart(_)
TrimStart(t) == IF t # <<>> /\ Head(t) = " " THEN TrimStart(Tail(t)) ELSE t
RECURSIVE TrimEnd(_)
TrimEnd(t) == IF t # <<>> /\ t[Len(t)] = " " THEN TrimEnd(SubSeq(t, 1, Len(t) - 1)) ELSE t
Trim(t) == TrimEnd(TrimStart(t))
\* !message?.trim()
Blank(field) == ~field.present \/ Trim(field.text) = <<>>

\* the bodies a client can send; the session of the third route is a
\* parameter of its path, which never matches when empty
Requests ==
  {[route |-> r, session_id |-> s, user_id |-> u, message |-> m, images |-> i] :
     r \in SendRoutes, s \in {"", "s1"}, u \in {"", "u1"},
     m \in {[present |-> FALSE, text |-> <<>>]} \cup {[present |-> TRUE, text |-> t] : t \in Texts},
     i \in {[present |-> FALSE, count |-> 0]} \cup {[present |-> TRUE, count |-> n] : n \in 0..MaxSent}}

\* res.status(st).json({ success: false, error: { code } }), sent by the
\* route or by errorHandler for a ChatError(code, message, st)
Rejected(st, code) == [sent |-> TRUE, status |-> st, code |-> code, serviceCalled |-> FALSE, message |-> <<>>]
\* the handler went on to chatService.sendMessage / sendMessageStream, whose
\* outcome decides the status (0: not decided by the validation)
Accepted(req) == [sent |-> TRUE, status |-> 0, code |-> "none", serviceCalled |-> TRUE,
                  message |-> Trim(req.message.text)]

\* the image check of /api/chat/send and /api/chat/stream
TooManyImages(images) == images.present /\ images.count > MAX_IMAGES

\* POST /api/chat/send and POST /api/chat/stream: the same four checks, in
\* the same order, with the same codes
ChatSend(req) ==
  IF req.session_id = "" THEN Rejected(400, "MISSING_SESSION_ID")
  ELSE IF req.user_id = "" THEN Rejected(400, "MISSING_USER_ID")
  ELSE IF Blank(req.message) THEN Rejected(400, "EMPTY_MESSAGE")
  ELSE IF TooManyImages(req.images) THEN Rejected(400, "TOO_MANY_IMAGES")
  ELSE Accepted(req)
ChatStream(req) ==
  IF req.session_id = "" THEN Rejected(400, "MISSING_SESSION_ID")
  ELSE IF req.user_id = "" THEN Rejected(400, "MISSING_USER_ID")
  ELSE IF Blank(req.message) THEN Rejected(400, "EMPTY_MESSAGE")
  ELSE IF TooManyImages(req.images) THEN Rejected(400, "TOO_MANY_IMAGES")
  ELSE Accepted(req)
\* POST /api/conversations/:sessionId/messages: user_id and text are checked
ConversationMessages(req) ==
  IF req.user_id = "" THEN Rejected(400, "MISSING_USER_ID")
  ELSE IF Blank(req.message) THEN Rejected(400, "EMPTY_MESSAGE")
  ELSE Accepted(req)

RouteInit ==
  /\ LifecycleIdle
  /\ answers = NoAnswers /\ upResult = NoCall
  /\ coreOp = "none" /\ coreAnswers = NoAnswers /\ coreResult = NoCall
  /\ store = NoStore /\ now = 0 /\ storeOut = NoOut
  /\ request \in {req \in Requests :
                    req.route = "/api/conversations/:sessionId/messages" => req.session_id # ""}
  /\ response = NoResponse /\ page = NoPage
  /\ life = NoLives

HandleChatSend ==
  /\ request.route = "/api/chat/send" /\ ~response.sent
  /\ response' = ChatSend(request)
  /\ UNCHANGED <<lifecycleVars, upCallVars, coreCallVars, storeVars, pairVars, request, page>>
HandleChatStream ==
  /\ request.route = "/api/chat/stream" /\ ~response.sent
  /\ response' = ChatStream(request)
  /\ UNCHANGED <<lifecycleVars, upCallVars, coreCallVars, storeVars, pairVars, request, page>>
HandleConversationMessages ==
  /\ request.route = "/api/conversations/:sessionId/messages" /\ ~response.sent
  /\ response' = ConversationMessages(request)
  /\ UNCHANGED <<lifecycleVars, upCallVars, coreCallVars, storeVars, pairVars, request, page>>

RouteNext == HandleChatSend \/ HandleChatStream \/ HandleConversationMessages

RouteSpec == RouteInit /\ [][RouteNext]_vars

\* ------------------------------------- public/chat.js, sendMessage calls
Calls == 1..MaxCalls
\* what the user may have put into the input: nothing, blanks, a text
Inputs == {<<>>, <<" ">>, <<"q">>}

PageInit ==
  /\ LifecycleIdle
  /\ answers = NoAnswers /\ upResult = NoCall
  /\ coreOp = "none" /\ coreAnswers = NoAnswers /\ coreResult = NoCall
  /\ store = NoStore /\ now = 0 /\ storeOut = NoOut
  /\ request = NoRequest /\ response = NoResponse /\ life = NoLives
  /\ \E sid \in {"none"} \cup Sessions : \E txt \in Inputs :
       page = [loaded |-> TRUE, isStreaming |-> FALSE, currentSessionId |-> sid,
               messageInput |-> txt, call |-> [c \in Calls |-> "idle"]]

PageStep(c, to, changes) ==
  /\ page' = [changes EXCEPT !.call[c] = to]
  /\ UNCHANGED <<lifecycleVars, upCallVars, coreCallVars, storeVars, pairVars, request, response>>

\* chat.js:546-577: the user's message is shown, the input is cleared,
\* isStreaming = true, and POST /api/chat/stream is sent
Streaming(p) == [p EXCEPT !.messageInput = <<>>, !.isStreaming = TRUE]

\* chat.js:520-534: a call of sendMessage up to its first await; it returns
\* at the guard, awaits POST /api/chat/new, or goes on to the stream
SendMessageCalled(c) ==
  /\ page.call[c] = "idle"
  /\ IF Trim(page.messageInput) = <<>> \/ page.isStreaming
       THEN PageStep(c, "returned", page)
       ELSE IF page.currentSessionId = "none"
         THEN PageStep(c, "creating", page)
         ELSE PageStep(c, "streaming", Streaming(page))

\* chat.js:535-544: the answer to POST /api/chat/new; on a failure the call
\* returns from its catch
SessionAnswered(c) ==
  /\ page.call[c] = "creating"
  /\ \/ \E sid \in Sessions :
          PageStep(c, "streaming", Streaming([page EXCEPT !.currentSessionId = sid]))
     \/ PageStep(c, "failed", page)

\* chat.js:579-640: the stream is read to its end or fails; finally resets
\* the flag
StreamFinished(c) ==
  /\ page.call[c] = "streaming"
  /\ PageStep(c, "finished", [page EXCEPT !.isStreaming = FALSE])

\* the user types, or clicks an example button, which sets the input
InputChanged ==
  /\ \E txt \in Inputs \ {<<>>} :
       /\ page.messageInput # txt
       /\ page' = [page EXCEPT !.messageInput = txt]
  /\ UNCHANGED <<lifecycleVars, upCallVars, coreCallVars, storeVars, pairVars, request, response>>

PageNext ==
  \/ \E c \in Calls : SendMessageCalled(c)
  \/ \E c \in Calls : SessionAnswered(c)
  \/ \E c \in Calls : StreamFinished(c)
  \/ InputChanged

PageSpec == PageInit /\ [][PageNext]_vars

\* ------------- lifecycles side by side: the store calls of sendMessageStream
\* Each session has one lifecycle; its awaits on the file system are the
\* steps, and the steps of different lifecycles interleave freely.
\* the text lifecycle s gives a message of a role
TextOf(s, role) == <<s>> \o ContentOf(role)
\* the file a session holds when its lifecycle starts
StartFiles == {AbsentFile, NewFile(0),
               [conv |-> PriorConversation("none"), created_at |-> 0, updated_at |-> 0]}
\* a lifecycle at its start over a file holding the messages base
StartLife(base) ==
  [pc |-> "load", role |-> "user", held |-> NoConversation, base |-> base, appended |-> <<>>]

PairInit ==
  /\ LifecycleIdle
  /\ answers = NoAnswers /\ upResult = NoCall
  /\ coreOp = "none" /\ coreAnswers = NoAnswers /\ coreResult = NoCall
  /\ request = NoRequest /\ response = NoResponse /\ page = NoPage
  /\ now = 0 /\ storeOut = NoOut
  /\ \E fs \in [Sessions -> StartFiles] :
       /\ store = [dir |-> \E s \in Sessions : OnDisk(fs[s]), files |-> fs]
       /\ life = [s \in Sessions |-> StartLife(fs[s].conv.messages)]

At(s, where) == life[s].pc = where
Goto(s, where) == life' = [life EXCEPT ![s].pc = where]

\* chat.ts:136, const conversation = await storageService.getConversation(...)
LifeGetConversation(s) ==
  /\ At(s, "load")
  /\ Goto(s, "read")
  /\ UNCHANGED <<lifecycleVars, upCallVars, coreCallVars, routeVars, storeVars>>

\* addMessage, storage.ts:146: let conversation = await this.getConversation(...)
AddMessageRead(s) ==
  /\ At(s, "read")
  /\ \E readOk \in BOOLEAN :
       LET seen == IF readOk THEN store.files[s].conv ELSE Unread(store.files[s].conv)
           got == GetConversation(seen)
       IN life' = [life EXCEPT ![s].held = got,
                               ![s].pc = IF got.exists THEN "save" ELSE "create"]
  /\ UNCHANGED <<lifecycleVars, upCallVars, coreCallVars, routeVars, storeVars>>

\* addMessage, storage.ts:148-150: conversation = await this.createConversation(...)
AddMessageCreate(s) ==
  /\ At(s, "create")
  /\ \E ok \in BOOLEAN :
       IF ok
         THEN /\ store' = WithFile(store, s, NewFile(now))
              /\ life' = [life EXCEPT ![s].held = EmptyConversation, ![s].pc = "save"]
         ELSE /\ store' = store
              /\ Goto(s, "thrown")
  /\ UNCHANGED <<lifecycleVars, upCallVars, coreCallVars, routeVars, now, storeOut>>

\* addMessage, storage.ts:152-166: push, title, await this.saveConversation(...)
AddMessageSave(s) ==
  /\ At(s, "save")
  /\ \E ok \in BOOLEAN :
       LET role == life[s].role
           saved == AddMessageOk(life[s].held, role, TextOf(s, role))
       IN IF ok
            THEN /\ store' = WithFile(store, s, [conv |-> saved,
                                                 created_at |-> store.files[s].created_at,
                                                 updated_at |-> now])
                 /\ life' = [life EXCEPT
                               ![s].appended = Append(@, [role |-> role, content |-> TextOf(s, role)]),
                               ![s].held = NoConversation,
                               ![s].pc = IF role = "user" THEN "upstream" ELSE "end"]
            ELSE /\ store' = store
                 /\ Goto(s, "thrown")
  /\ UNCHANGED <<lifecycleVars, upCallVars, coreCallVars, routeVars, now, storeOut>>

\* chat.ts:167-226: the upstream call ends in done with a text, and the
\* assistant turn is stored, or in anything else, and it is not
LifeUpstream(s) ==
  /\ At(s, "upstream")
  /\ \E text \in BOOLEAN :
       life' = [life EXCEPT ![s].role = "assistant", ![s].pc = IF text THEN "read" ELSE "end"]
  /\ UNCHANGED <<lifecycleVars, upCallVars, coreCallVars, routeVars, storeVars>>

PairNext ==
  \E s \in Sessions :
    \/ LifeGetConversation(s)
    \/ AddMessageRead(s)
    \/ AddMessageCreate(s)
    \/ AddMessageSave(s)
    \/ LifeUpstream(s)

PairSpec == PairInit /\ [][PairNext]_vars

\* ------------- cleanupOldConversations, await by await, beside addMessage
\* a conversation of one user message, created and last updated on day 0
OldFile ==
  [conv |-> AddMessageOk(EmptyConversation, "user", MESSAGE), created_at |-> 0, updated_at |-> 0]
\* the sessions whose files the loop over files visits before that of s
Before(s) ==
  {SessionOrder[i] : i \in {i \in 1..Len(SessionOrder) :
                              \E j \in 1..Len(SessionOrder) : i < j /\ SessionOrder[j] = s}}
\* the sweep at a file: not listed yet, listed, read, left behind
Sweeping(where) == [pc |-> where, seen |-> AbsentFile]

\* the sweep starts on the day after the retention time of day 0 has passed
RaceInit ==
  /\ LifecycleIdle
  /\ answers = NoAnswers /\ upResult = NoCall
  /\ coreOp = "none" /\ coreAnswers = NoAnswers /\ coreResult = NoCall
  /\ request = NoRequest /\ response = NoResponse /\ page = NoPage
  /\ now = CONVERSATION_TTL_DAYS + 1 /\ storeOut = NoOut
  /\ \E fs \in [Sessions -> {AbsentFile, OldFile, NewFile(1), CorruptFile}] :
       store = [dir |-> \E s \in Sessions : OnDisk(fs[s]), files |-> fs]
  /\ life = [s \in Sessions |-> Sweeping("wait")]

\* storage.ts:272, const files = await fs.readdir(userPath)
SweepReaddir ==
  /\ store.dir
  /\ \A s \in Sessions : At(s, "wait")
  /\ life' = [s \in Sessions |-> Sweeping(IF OnDisk(store.files[s]) THEN "todo" ELSE "done")]
  /\ UNCHANGED <<lifecycleVars, upCallVars, coreCallVars, routeVars, storeVars>>

\* storage.ts:279, const content = await fs.readFile(filePath, 'utf-8')
SweepRead(s) ==
  /\ At(s, "todo")
  /\ \A t \in Before(s) : At(t, "done")
  /\ life' = [life EXCEPT ![s] = [pc |-> "read", seen |-> store.files[s]]]
  /\ UNCHANGED <<lifecycleVars, upCallVars, coreCallVars, routeVars, storeVars>>

\* storage.ts:280-288: JSON.parse, the comparison with the cutoff date and
\* await fs.unlink(filePath), on what readFile returned; the catch skips a
\* file that did not parse or is no longer there
SweepUnlink(s) ==
  /\ At(s, "read")
  /\ store' = IF Swept(life[s].seen) THEN [store EXCEPT !.files[s] = AbsentFile] ELSE store
  /\ life' = [life EXCEPT ![s] = Sweeping("done")]
  /\ UNCHANGED <<lifecycleVars, upCallVars, coreCallVars, routeVars, now, storeOut>>

\* storage.ts:291-294: readdir again, rmdir when nothing remains
SweepRmdir ==
  /\ \A s \in Sessions : At(s, "done")
  /\ store' = [store EXCEPT !.dir = \E s \in Sessions : OnDisk(store.files[s])]
  /\ life' = [s \in Sessions |-> Sweeping("end")]
  /\ UNCHANGED <<lifecycleVars, upCallVars, coreCallVars, routeVars, now, storeOut>>

\* a lifecycle appends a message while the sweep is at any of its awaits
RaceNext ==
  \/ SweepReaddir
  \/ \E s \in Sessions : SweepRead(s)
  \/ \E s \in Sessions : SweepUnlink(s)
  \/ SweepRmdir
  \/ \E s \in Sessions : \E role \in {"user", "assistant"} : StoreAddMessage(s, role)

RaceSpec == RaceInit /\ [][RaceNext]_vars

\* ================================================================ claims
Finished == gstate # "active"
\* the generator came to its own end, its consumer having drained it
Drained == gstate \in {"returned", "thrown"}
TerminalAt == {i \in 1..Len(events) : Terminal(events[i])}
OpsAt(op) == {i \in 1..Len(oplog) : oplog[i] = op}
StoreOps == {"getConversation", "addMessage:user", "getLastResponseId", "addMessage:assistant"}
RollbackBody == [action |-> "rollback", usage |-> "none", model |-> "none"]
\* the upstream client's error event was yielded on by the generator
UpstreamErrorEvent ==
  \E i \in 1..Len(events) :
    events[i].type = "error" /\ events[i].errorCode \in {"OPENAI_STREAM_ERROR", "OPENAI_UNAVAILABLE"}
\* the upstream generation failed: an error event, or an exception
UpstreamFailed == UpstreamErrorEvent \/ upc = "thrown"

\* C1: a run of sendMessageStream drained to its end has yielded exactly one
\* terminal event (done or error), and that event is the last one.
C1_OneTerminalEvent ==
  Drained => /\ Cardinality(TerminalAt) = 1
             /\ Terminal(events[Len(events)])

\* C2: when pre-authorization was allowed and the upstream generation failed,
\* the finished generator has called billingFinish exactly once, with rollback.
C2_RollbackOnFailedGeneration ==
  (Finished /\ startOutcome = "allowed" /\ UpstreamFailed) => finishReqs = <<RollbackBody>>

\* C3: when pre-authorization was allowed and the upstream client emitted done
\* with usage, the finished generator has called billingFinish exactly once,
\* with commit, the usage and the model of the done event; a rollback request
\* carries neither usage nor model.
C3_CommitCarriesUsage ==
  /\ (Finished /\ startOutcome = "allowed" /\ aiSucceeded /\ finalUsage # "none")
       => finishReqs = <<[action |-> "commit", usage |-> finalUsage, model |-> finalModel]>>
  /\ \A i \in 1..Len(finishReqs) :
       finishReqs[i].action = "rollback" => finishReqs[i] = RollbackBody

\* C4: when pre-authorization was allowed and the upstream client emitted done
\* without usage, the lifecycle that has run to its end has called
\* billingFinish with rollback.
C4_RollbackWithoutUsage ==
  (gstate = "returned" /\ startOutcome = "allowed" /\ aiSucceeded /\ finalUsage = "none")
    => \E i \in 1..Len(finishReqs) : finishReqs[i].action = "rollback"

\* C5: billingStart is called at most once, billingFinish at most once, and
\* billingFinish only after billingStart answered allowed.
C5_AtMostOneStartAndFinish ==
  /\ startCalls <= 1
  /\ Len(finishReqs) <= 1
  /\ Len(finishReqs) > 0 => startOutcome = "allowed"

C5_Witness ==
  /\ gstate = "returned" /\ startOutcome = "allowed"
  /\ startCalls = 1 /\ Len(finishReqs) = 1

\* C6: when pre-authorization was allowed and a later store operation failed,
\* the lifecycle has called billingFinish exactly once, with rollback.
C6_RollbackOnStoreFailure ==
  (cstate = "done" /\ startOutcome = "allowed" /\ gstate = "thrown")
    => finishReqs = <<RollbackBody>>

\* C7: when the client of /api/chat/stream disconnected after the upstream
\* call was opened, the request still ends with the lifecycle complete: the
\* upstream call not cancelled, the assistant turn persisted when the
\* generation succeeded, billing settled exactly once.
C7_DisconnectCompletesLifecycle ==
  (consumer = "sse" /\ cstate = "done" /\ clientDisconnected /\ OpsAt("streamChatCompletion") # {})
    => /\ upc # "closed"
       /\ ShouldPersistAssistant => OpsAt("addMessage:assistant") # {}
       /\ startOutcome = "allowed" => Len(finishReqs) = 1

\* C8: sendMessage returns the content and usage of the done event, fails on an
\* error event with a ChatError of that event's code and message, and has then
\* made the settlement a drained stream makes: the rollback after an upstream
\* error event.
C8_SyncSettlesAsStream ==
  (consumer = "sync" /\ cstate = "done")
    => /\ syncResult.status = "returned"
            => /\ syncResult.content = finalContent
               /\ syncResult.usage = finalUsage
       /\ syncResult.status = "ChatError"
            => /\ LastEvent.type = "error"
               /\ syncResult.code = LastEvent.errorCode
               /\ syncResult.message = LastEvent.errorMessage
               /\ UpstreamErrorEvent
                    => finishReqs = IF RollbackOnFailure THEN <<RollbackBody>> ELSE <<>>

\* the state after a denial: two events, one call, nothing else
C9_DeniedState ==
  startOutcome = "denied"
    => /\ Len(events) = 2
       /\ events[2].type = "error"
       /\ events[2].errorCode \in {"INSUFFICIENT_BALANCE", "BILLING_DENIED"}
       /\ oplog = <<"billingStart">>
       /\ upc = "unopened" /\ httpAttempts = 0
       /\ finishReqs = <<>>
       /\ Finished => gstate \in {"returned", "closed"}
\* C9: after a denied pre-authorization the stream is the first status event
\* and one error event, and there is no upstream call, no store read or write
\* (the stored conversation never changes) and no settlement call.
C9_DeniedDoesNothing ==
  /\ []C9_DeniedState
  /\ [][startOutcome' = "denied" => conv' = conv]_vars

C9_Witness == startOutcome = "denied" /\ gstate = "returned" /\ cstate = "done"

ErrorsAt == {i \in 1..Len(events) : events[i].type = "error"}
LastFinish == finishReqs[Len(finishReqs)]

\* C11: a billingFinish call that rejects leaves the event sequence as it is
\* without the rejection: after a rejected commit the generator returns with
\* done as its only terminal event, carrying the full content of the upstream
\* call, and no error event; after a rejected rollback it returns with the one
\* error event of the failed generation as its last event.
C11_SettlementFailureInvisible ==
  (finishThrew /\ Finished)
    => /\ gstate \in {"returned", "closed"}
       /\ Cardinality(TerminalAt) = 1
       /\ Terminal(LastEvent)
       /\ LastFinish.action = "commit"
            => /\ LastEvent = DoneEvent(fullContent, upUsage, finalResponseId)
               /\ ErrorsAt = {}
       /\ LastFinish.action = "rollback"
            => /\ ErrorsAt = {Len(events)}
               /\ LastEvent.errorCode \in {"OPENAI_STREAM_ERROR", "OPENAI_UNAVAILABLE", "AI_ERROR"}

C11_Witness ==
  /\ finishThrew /\ gstate = "returned" /\ cstate = "done"
  /\ LastFinish.action = "commit" /\ LastEvent.type = "done" /\ LastEvent.content # <<>>

\* C12: a denied pre-authorization yields exactly one error event, the last
\* event of the sequence: with code INSUFFICIENT_BALANCE when the reason is
\* balance_non_positive or balance_below_threshold, with code BILLING_DENIED
\* for every other reason, null included; the generator then ends.
C12_DeniedCodeByReason ==
  startOutcome = "denied"
    => /\ denyReason \in DenyReasons
       /\ ErrorsAt = {Len(events)}
       /\ denyReason \in {"balance_non_positive", "balance_below_threshold"}
            => LastEvent.errorCode = "INSUFFICIENT_BALANCE"
       /\ denyReason \notin {"balance_non_positive", "balance_below_threshold"}
            => LastEvent.errorCode = "BILLING_DENIED"
       /\ pc \in {"return", "end"}
       /\ Finished => gstate \in {"returned", "closed"}

C12_Witness ==
  /\ startOutcome = "denied" /\ denyReason = "balance_below_threshold"
  /\ LastEvent.errorCode = "INSUFFICIENT_BALANCE" /\ gstate = "returned"

\* C13: when billingStart fails outside development mode, the events are the
\* first status event and one error event with code BILLING_ERROR, and the
\* only collaborator call is billingStart: no store operation, no upstream
\* call, no billingFinish.
C13_StrictBillingError ==
  (startOutcome = "failed" /\ nodeEnv # "development")
    => /\ Len(events) = 2
       /\ events[1] = StatusEvent("checking_balance", 5)
       /\ events[2].type = "error" /\ events[2].errorCode = "BILLING_ERROR"
       /\ oplog = <<"billingStart">>
       /\ upc = "unopened" /\ httpAttempts = 0
       /\ finishReqs = <<>>
       /\ pc \in {"return", "end"}
       /\ Finished => gstate \in {"returned", "closed"}

C13_Witness ==
  /\ startOutcome = "failed" /\ nodeEnv = "production"
  /\ gstate = "returned" /\ cstate = "done" /\ LastEvent.errorCode = "BILLING_ERROR"

\* the user turn of this lifecycle is stored
UserPersisted == OpsAt("getLastResponseId") # {}
\* the stored conversation begins with this lifecycle's turn
FirstTurn == Len(conv.messages) >= 1 /\ conv.messages[1].content # PriorTurn("none")[1].content
WithContext == MESSAGE \o CONTEXT_PARTS
StoredMessage(role, content) == [role |-> role, content |-> content]
ContentAt(i) == StoredMessage(conv.messages[i].role, conv.messages[i].content)

\* C14: on the first message of a session, the conversation being empty or
\* not yet in the store, sent with context fields, the stored user message and
\* the text given to the upstream call are the message followed by the context
\* fields; on a later turn the message is stored without context.
C14_ContextOnFirstMessage ==
  UserPersisted
    => /\ (FirstTurn /\ hasContext)
            => /\ ContentAt(1) = StoredMessage("user", WithContext)
               /\ upc # "unopened" => messages = << StoredMessage("user", WithContext) >>
       /\ ~FirstTurn
            => /\ ContentAt(3) = StoredMessage("user", MESSAGE)
               /\ upc # "unopened" => messages[Len(messages)] = StoredMessage("user", MESSAGE)

\* C15: the input of the upstream call is the whole stored history, the new
\* message last, when the store holds no response identifier of a prior
\* assistant turn; when it holds one, the input is the new message alone and
\* the call resumes from that identifier.
C15_HistoryOrResume ==
  (pc = "upstream" /\ upc # "unopened")
    => /\ lastResponseId = "none" => messages = GetMessagesForAI(conv)
       /\ lastResponseId # "none"
            => /\ messages = << StoredMessage("user", finalMessage) >>
               /\ UpResumeId = lastResponseId

\* C16: after a turn that ended in done and whose completion frame carried a
\* response identifier, the done event of the upstream call and of the
\* lifecycle carry that identifier, the stored assistant message holds it, and
\* it is the identifier the next turn on the session reads to resume from.
C16_ResponseIdCarried ==
  (gstate = "returned" /\ LastEvent.type = "done" /\ frameId # "none")
    => /\ finalResponseId = frameId
       /\ LastEvent.responseId = frameId
       /\ OpsAt("addMessage:assistant") # {}
            => /\ conv.messages[Len(conv.messages)].responseId = frameId
               /\ GetLastResponseId(conv) = frameId

\* C17: once the done event of the upstream call has arrived and the
\* lifecycle has run to its end, the conversation ends with the user message of this
\* lifecycle directly followed by one assistant message holding the full text
\* of that done event; a lifecycle stores at most one user message and at
\* most one assistant message.
C17_OneAssistantMessage ==
  /\ Cardinality(OpsAt("addMessage:user")) <= 1
  /\ Cardinality(OpsAt("addMessage:assistant")) <= 1
  /\ (gstate = "returned" /\ aiSucceeded)
       => /\ Len(conv.messages) >= 2
          /\ ContentAt(Len(conv.messages) - 1) = StoredMessage("user", finalMessage)
          /\ ContentAt(Len(conv.messages)) = StoredMessage("assistant", fullContent)

\* a call that succeeds at once on the body of answer b
Immediate(b) == StreamChatCompletion([first |-> b, rest |-> b])
\* the answer is a 2xx body read to its end without an error frame
Succeeds(a) == a.kind = "body" /\ a.ending = "end" /\ ~ReadBody(a.frames, NoBody).errored
\* the sequence without its i-th element
RemoveAt(seq, i) == SubSeq(seq, 1, i - 1) \o SubSeq(seq, i + 1, Len(seq))
\* the call met HTTP 429 on its first attempt and succeeded on the second
RateLimitedOnce == upResult.called /\ answers.first.kind = "429" /\ Succeeds(answers.rest)

\* C18 as stated: a call that meets HTTP 429 on its first attempt and succeeds
\* on the second ends with the done event of the call that succeeds at once,
\* and its events are those of that call with exactly one status event added.
C18_OneExtraStatus ==
  RateLimitedOnce
    => LET imm == Immediate(answers.rest).events
           evs == upResult.events
       IN /\ evs[Len(evs)] = imm[Len(imm)]
          /\ \E i \in 1..Len(evs) : evs[i].type = "status" /\ RemoveAt(evs, i) = imm

\* C18 amended: the done event is that of the call that succeeds at once,
\* and the events are those of that call with exactly two status events
\* added after its first two: the rate-limit notice and the request-sent
\* status of the second attempt.
C18_TwoExtraStatus ==
  RateLimitedOnce
    => LET imm == Immediate(answers.rest).events
           evs == upResult.events
       IN /\ ~upResult.threw
          /\ evs[Len(evs)].type = "done"
          /\ evs[Len(evs)] = imm[Len(imm)]
          /\ evs = SubSeq(imm, 1, 2)
                     \o <<StatusEvent("rate_limited", 15), StatusEvent("request_sent", 20)>>
                     \o SubSeq(imm, 3, Len(imm))

C18_Witness ==
  /\ RateLimitedOnce
  /\ upResult.events[Len(upResult.events)].content # <<>>
  /\ upResult.events[Len(upResult.events)].usage = "usage_1"

\* the answer the failed call met on its last attempt
LastCoreAnswer == AnswerAt(coreAnswers, coreResult.attempts - 1)
\* the failures the claim names: a 4xx or 5xx response, a network failure
NamedCoreFailure ==
  /\ coreResult.called /\ ~coreResult.ok
  /\ \/ LastCoreAnswer.kind = "network"
     \/ LastCoreAnswer.kind = "response" /\ LastCoreAnswer.body # "notjson"

\* C19: a Billing Gateway Client operation that fails, after a 4xx response,
\* after the retries of 5xx responses are used up, or after the retries of
\* network failures are used up, throws a CoreApiError that carries an error
\* code, a message and the HTTP status.
C19_FailuresAreCoreApiErrors ==
  NamedCoreFailure
    => /\ coreResult.error.name = "CoreApiError"
       /\ coreResult.error.code # "none"
       /\ coreResult.error.message # "none"
       /\ coreResult.error.httpStatus >= 400

IsPrefix(old, new) == Len(old) <= Len(new) /\ SubSeq(new, 1, Len(old)) = old

\* C20: no store operation modifies, removes or reorders a stored message:
\* every step leaves each session's stored message sequence a prefix of the
\* new one, except a retention sweep that deletes the whole conversation.
C20_AppendOnly ==
  [][\A s \in Sessions :
       \/ IsPrefix(store.files[s].conv.messages, store'.files[s].conv.messages)
       \/ /\ storeOut'.op = "cleanupOldConversations"
          /\ store'.files[s] = AbsentFile]_vars

\* what getConversation returns for the file of session s in store st
Got(st, s) == GetConversation(st.files[s].conv)
\* the step is an addMessage call on session s that resolved
AddMessageResolved(s) ==
  storeOut'.op = "addMessage" /\ storeOut'.session = s /\ storeOut'.resolved

\* C21: every addMessage call that resolves leaves getConversation returning
\* the messages it returned before the call followed by the message of the
\* call, role and content unchanged; so N calls on an absent or empty
\* conversation are read back as those N messages in call order.
C21_RoundTrip ==
  [][\A s \in Sessions :
       AddMessageResolved(s)
         => [i \in 1..Len(Got(store', s).messages) |->
               StoredMessage(Got(store', s).messages[i].role, Got(store', s).messages[i].content)]
              = [i \in 1..Len(Got(store, s).messages) |->
                   StoredMessage(Got(store, s).messages[i].role, Got(store, s).messages[i].content)]
                  \o <<StoredMessage(storeOut'.role, ContentOf(storeOut'.role))>>]_vars

\* the request fails the validation the claim names
FailsValidation ==
  \/ request.session_id = ""
  \/ request.user_id = ""
  \/ Blank(request.message)
  \/ request.images.present /\ request.images.count > MAX_IMAGES

\* C22: on each of the three send-message routes a request without
\* session_id, without user_id, with an empty or whitespace-only message or
\* with more than 5 images is answered with status 400 and a validation code,
\* and ChatService is not called (so nothing is stored, billed or sent
\* upstream).
C22_ValidationRejects ==
  (response.sent /\ FailsValidation)
    => /\ response.status = 400
       /\ response.code \in {"MISSING_SESSION_ID", "MISSING_USER_ID", "EMPTY_MESSAGE", "TOO_MANY_IMAGES"}
       /\ ~response.serviceCalled

\* the step is one run of cleanupOldConversations
SweepStep == storeOut'.op = "cleanupOldConversations" /\ now' = now
\* the day before which a conversation last updated is swept
Cutoff == now - CONVERSATION_TTL_DAYS

ListStep == storeOut'.op = "getUserConversations" /\ now' = now
\* the readable conversations created inside the window of 7 days
CreatedInWindow == {s \in Sessions : Readable(store.files[s]) /\ store.files[s].created_at >= now - LIST_DAYS}

\* C24: getUserConversations(user, 7) returns the readable conversations
\* created not more than 7 days before now, each once, with its number of
\* messages, the later updated first; a conversation created before the
\* window is left out even when it was updated inside it.
C24_ListByCreatedAt ==
  [][ListStep
       => LET list == storeOut'.list IN
          /\ {list[i].session_id : i \in 1..Len(list)} = CreatedInWindow
          /\ Len(list) = Cardinality(CreatedInWindow)
          /\ \A i \in 1..Len(list) :
               /\ list[i].message_count = Len(store.files[list[i].session_id].conv.messages)
               /\ list[i].updated_at = store.files[list[i].session_id].updated_at
          /\ \A i, j \in 1..Len(list) : i < j => list[i].updated_at >= list[j].updated_at]_vars

\* a list of one conversation, a second one having been created before the
\* window and updated inside it
C24_Witness ==
  /\ storeOut.op = "getUserConversations" /\ Len(storeOut.list) = 1
  /\ storeOut.list[1].message_count >= 1
  /\ \E s \in Sessions :
       /\ s # storeOut.list[1].session_id
       /\ Readable(store.files[s])
       /\ store.files[s].created_at < now - LIST_DAYS
       /\ store.files[s].updated_at >= now - LIST_DAYS

\* the stored messages of session s, as role and content
StoredAt(s) ==
  [i \in 1..Len(Got(store, s).messages) |->
     StoredMessage(Got(store, s).messages[i].role, Got(store, s).messages[i].content)]
BaseOf(s) ==
  [i \in 1..Len(life[s].base) |-> StoredMessage(life[s].base[i].role, life[s].base[i].content)]

MetAt(k) == AnswerAt(answers, k)
TerminalIn(evs) == {i \in 1..Len(evs) : Terminal(evs[i])}

\* C26: an attempt of streamChatCompletion answered with a non-2xx status
\* other than 429 is the last attempt of the call (the only one when it is
\* the first); the call throws an OpenAIError holding that status and has
\* yielded no error and no done event; sendMessageStream then yields exactly
\* one error event, with code AI_ERROR, as its last event.
C26_HttpErrorNotRetried ==
  upResult.called
    => \A k \in 0..(upResult.attempts - 1) :
         MetAt(k).kind = "http"
           => /\ upResult.attempts = k + 1
              /\ upResult.threw
              /\ upResult.error.name = "OpenAIError"
              /\ upResult.error.httpStatus = MetAt(k).status
              /\ TerminalIn(upResult.events) = {}
              /\ TerminalIn(upResult.yielded) = {Len(upResult.yielded)}
              /\ upResult.yielded[Len(upResult.yielded)].type = "error"
              /\ upResult.yielded[Len(upResult.yielded)].errorCode = "AI_ERROR"

\* the first answer is HTTP 500: one request, an OpenAIError of status 500
C26_Witness ==
  /\ upResult.called /\ answers.first.kind = "http" /\ answers.first.status = 500
  /\ answers.rest.kind = "body"
  /\ upResult.attempts = 1 /\ upResult.error.httpStatus = 500
  /\ Len(upResult.yielded) = 3

\* the attempt fails at network level: fetch rejects, or the reading of a
\* 2xx body rejects before any error frame
NetworkFailure(a) ==
  \/ a.kind = "net"
  \/ a.kind = "body" /\ a.ending = "readError" /\ ~ReadBody(a.frames, NoBody).errored
\* the status events that announce a retry
RetryNotices(evs) ==
  {i \in 1..Len(evs) : evs[i].type = "status" /\ evs[i].status \in {"rate_limited", "reconnecting"}}

\* C27: when every attempt of streamChatCompletion fails at network level,
\* the call makes 4 attempts, does not throw, and yields exactly one error
\* event, with code OPENAI_UNAVAILABLE, as its last event.
C27_NetworkExhaustion ==
  (upResult.called /\ NetworkFailure(answers.first) /\ NetworkFailure(answers.rest))
    => /\ upResult.attempts = 4
       /\ ~upResult.threw
       /\ TerminalIn(upResult.events) = {Len(upResult.events)}
       /\ upResult.events[Len(upResult.events)].type = "error"
       /\ upResult.events[Len(upResult.events)].errorCode = "OPENAI_UNAVAILABLE"

C27_Witness ==
  /\ upResult.called /\ answers.first.kind = "net" /\ NetworkFailure(answers.rest)
  /\ answers.rest.kind = "body" /\ answers.rest.frames # <<>>
  /\ upResult.attempts = 4
  /\ upResult.events[Len(upResult.events)].errorCode = "OPENAI_UNAVAILABLE"

\* C30: a call of streamChatCompletion makes at most 4 HTTP attempts, the
\* retries after HTTP 429 and after network failures taken together; every
\* retry is announced by one status event; HTTP 429 on the fourth attempt is
\* not retried: the call throws an OpenAIError of status 429.
C30_AttemptCap ==
  upResult.called
    => /\ upResult.attempts <= 4
       /\ Cardinality(RetryNotices(upResult.events)) = upResult.attempts - 1
       /\ \A k \in 0..(upResult.attempts - 2) :
            MetAt(k).kind = "429" \/ NetworkFailure(MetAt(k))
       /\ (upResult.attempts = 4 /\ MetAt(3).kind = "429")
            => /\ upResult.threw
               /\ upResult.error.httpStatus = 429
               /\ TerminalIn(upResult.events) = {}

\* a network failure, then HTTP 429 three times: four attempts in all
C30_Witness ==
  /\ upResult.called /\ answers.first.kind = "net" /\ answers.rest.kind = "429"
  /\ upResult.attempts = 4 /\ upResult.threw
  /\ Cardinality(RetryNotices(upResult.events)) = 3

\* billingStart failed and the deployment is in development mode
DevFallbackTaken == startOutcome = "failed" /\ nodeEnv = "development"

\* C28: after a failed billingStart in development mode no billingFinish call
\* is made and no billing error is yielded; a lifecycle that has received the
\* done event of the upstream call and has run to its end has loaded the
\* conversation, stored the user turn, made the upstream call, stored the
\* assistant turn and yielded done as its last event.
C28_DevFallbackContinues ==
  DevFallbackTaken
    => /\ finishReqs = <<>>
       /\ \A i \in ErrorsAt : events[i].errorCode # "BILLING_ERROR"
       /\ (gstate = "returned" /\ aiSucceeded)
            => /\ OpsAt("getConversation") # {}
               /\ OpsAt("addMessage:user") # {}
               /\ OpsAt("streamChatCompletion") # {}
               /\ OpsAt("addMessage:assistant") # {}
               /\ LastEvent.type = "done"

\* the generator takes the event its upstream call has yielded
TakesUpstreamEvent == upOut # NoEvent /\ upOut' # upOut

\* C29: every status and text_delta event of the upstream call is yielded by
\* sendMessageStream as the next event of its sequence, with the same
\* payload, before the upstream call moves on; the done event of the upstream
\* call is not yielded; nothing follows a terminal event, and a done event of
\* the sequence is the one sendMessageStream builds from the values it kept.
C29_ForwardsVerbatim ==
  /\ [][TakesUpstreamEvent
          => /\ upOut' = NoEvent
             /\ upOut.type \in {"status", "text_delta"} => events' = Append(events, upOut)
             /\ upOut.type = "done" => events' = events]_vars
  /\ [](\A i \in 1..Len(events) :
          /\ Terminal(events[i]) => i = Len(events)
          /\ events[i].type = "done"
               => events[i] = DoneEvent(finalContent, finalUsage, finalResponseId))

\* a lifecycle that yielded a text of the provider and ended with done
C29_Witness ==
  /\ gstate = "returned" /\ LastEvent.type = "done" /\ LastEvent.content # <<>>
  /\ \E i, j \in 1..Len(events) :
       /\ i < j
       /\ events[i] = StatusEvent("request_sent", 20)
       /\ events[j].type = "text_delta"

\* the answer of the last attempt of the call
LastMet == MetAt(upResult.attempts - 1)
FramesOf(a, type) == {i \in 1..Len(a.frames) : a.frames[i].type = type}

\* C31: a call of streamChatCompletion ends in exactly one of three ways: one
\* done event, one error event, or a thrown OpenAIError. A terminal event is
\* the last event of the call, so no text_delta and no done follows an error
\* event. The done event comes only from a body that has ended without an
\* error frame, and every such body gives it, also without a completion
\* frame: the done event then has no usage.
C31_OneEnding ==
  upResult.called
    => LET evs == upResult.events
           ended == /\ LastMet.kind = "body" /\ LastMet.ending = "end"
                    /\ FramesOf(LastMet, "error") = {}
       IN /\ TerminalIn(evs) \subseteq {Len(evs)}
          /\ upResult.threw <=> TerminalIn(evs) = {}
          /\ upResult.threw => upResult.error.name = "OpenAIError"
          /\ ended <=> (~upResult.threw /\ evs[Len(evs)].type = "done")
          /\ (ended /\ FramesOf(LastMet, "completed") = {})
               => evs[Len(evs)].usage = "none"
          /\ \A k \in 0..(upResult.attempts - 1) :
               FramesOf(MetAt(k), "error") # {} => k = upResult.attempts - 1

\* an error frame followed by a text frame: the call ends with the error event
C31_Witness ==
  /\ upResult.called /\ answers.first.kind = "body"
  /\ Len(answers.first.frames) = 2
  /\ answers.first.frames[1].type = "error" /\ answers.first.frames[2].type = "delta"
  /\ upResult.attempts = 1 /\ ~upResult.threw
  /\ upResult.events[Len(upResult.events)].errorCode = "OPENAI_STREAM_ERROR"

\* the body without the frames the loop passes over
Kept(frames) == SelectSeq(frames, LAMBDA f : f.type \notin {"unparseable", "unknown"})
KeptIn(a) == [a EXCEPT !.frames = Kept(@)]

\* C32: a frame whose data is not JSON, or whose type is none of the
\* recognised ones, is passed over without ending the call: the call yields
\* the events, and ends the way, it does for the same bodies with these
\* frames removed.
C32_SkippedFramesInvisible ==
  upResult.called
    => LET bare == StreamChatCompletion([first |-> KeptIn(answers.first),
                                         rest |-> KeptIn(answers.rest)])
       IN /\ upResult.events = bare.events
          /\ upResult.threw = bare.threw
          /\ upResult.attempts = bare.attempts

\* an unparseable frame before a text frame: the text and the done follow
C32_Witness ==
  /\ upResult.called /\ answers.first.kind = "body" /\ answers.first.ending = "end"
  /\ Len(answers.first.frames) = 2
  /\ answers.first.frames[1].type = "unparseable" /\ answers.first.frames[2].type = "delta"
  /\ Len(upResult.events) = 4
  /\ upResult.events[3].type = "text_delta" /\ upResult.events[4].type = "done"

\* C33: a call of CoreClient.request makes at most maxRetries + 1 fetches (4,
\* or 2 in development); every fetch but the last was answered by a 5xx
\* response or failed at network level; the sleep before retry number k
\* (from 0) is 500 * 2^k ms; a 4xx response to the first fetch leaves it the
\* only one; every fetch carries the request identifier of the call.
C33_BoundedRetries ==
  coreResult.called
    => LET n == coreResult.attempts
           cap == IF nodeEnv = "development" THEN 1 ELSE 3
           met(k) == AnswerAt(coreAnswers, k)
       IN /\ n <= cap + 1
          /\ Len(coreResult.ids) = n
          /\ \A k \in 0..(n - 2) :
               \/ met(k).kind = "network"
               \/ met(k).kind = "response" /\ met(k).status >= 500
          /\ coreResult.delays = [k \in 1..(n - 1) |-> 500 * 2^(k - 1)]
          /\ (met(0).kind = "response" /\ met(0).status \in 400..499) => n = 1
          /\ \A k \in 1..n : coreResult.ids[k] = coreResult.ids[1]

\* HTTP 500 at every fetch outside development: three retries, then the throw
C33_Witness ==
  /\ coreResult.called /\ nodeEnv = "production"
  /\ coreAnswers.first.status = 500 /\ coreAnswers.rest.status = 500
  /\ coreAnswers.first.body = "error" /\ coreAnswers.rest.body = "error"
  /\ coreResult.attempts = 4
  /\ coreResult.delays = <<500, 1000, 2000>>
  /\ coreResult.ids = <<"req_2", "req_2", "req_2", "req_2">>

\* the stored conversation of session s holds a message of the user
HasUserMessage(st, s) ==
  \E i \in 1..Len(Got(st, s).messages) : Got(st, s).messages[i].role = "user"
\* the title the conversation of session s has, the default before it exists
TitleAt(st, s) == IF Got(st, s).exists THEN Got(st, s).title ELSE DEFAULT_TITLE
\* the first 80 characters of a text, followed by '...' when it is longer
First80(content) ==
  IF Len(content) > 80 THEN SubSeq(content, 1, 80) \o <<"...">> ELSE content

\* C34: an append changes the title of its conversation only when it appends
\* the first message of the user, and then to the first 80 characters of
\* that message, followed by '...' when the message is longer; every later
\* append, and every append of an assistant message, leaves the title as it
\* is.
C34_TitleSetOnce ==
  [][\A s \in Sessions :
       AddMessageResolved(s)
         => IF storeOut'.role = "user" /\ ~HasUserMessage(store, s)
              THEN TitleAt(store', s) = First80(storeOut'.content)
              ELSE TitleAt(store', s) = TitleAt(store, s)]_vars

\* the file of session s is on disk and cannot be read or parsed
Corrupted(s) == store.files[s].conv.exists /\ store.files[s].conv.corrupt
\* the file of session s is on disk and holds a conversation
Sound(s) == store.files[s].conv.exists /\ ~store.files[s].conv.corrupt
Listed(list) == {list[i].session_id : i \in 1..Len(list)}

WireNames == [i \in 1..Len(wire) |-> wire[i].event]
EventNames == [i \in 1..Len(events) |-> events[i].type]
\* the route has left its handler
RouteDone == consumer = "sse" /\ cstate = "done"

\* C36: when the handler of /api/chat/stream is left the response is ended;
\* for a client that stayed connected the wire then holds one event per
\* event of the orchestrator, in order and under its name, followed by one
\* error event of code INTERNAL_ERROR exactly when the orchestrator threw;
\* once the connection has closed nothing more is written.
C36_WireFollowsEvents ==
  /\ [](RouteDone => resEnded)
  /\ []((RouteDone /\ ~clientDisconnected)
         => /\ gstate # "thrown" => WireNames = EventNames
            /\ gstate = "thrown"
                 => /\ WireNames = Append(EventNames, "error")
                    /\ wire[Len(wire)].data.errorCode = "INTERNAL_ERROR")
  /\ [][clientDisconnected => wire' = wire]_vars

\* the generator of sendMessageStream has ended
Ended == gstate \in {"returned", "thrown", "closed"}
\* the attempt loop of streamChatCompletion starts an attempt after the first
AnotherAttempt == upc \notin {"unopened", "attempt"} /\ upc' = "attempt"

\* C37: every run of sendMessageStream reaches its end, whatever each fetch
\* and each file operation answers; every attempt of the upstream call
\* after the first increases the retry counter by one, and the counter never
\* exceeds its cap of 3.
C37_Terminates ==
  /\ <>Ended
  /\ [](retryCount <= 3)
  /\ [][AnotherAttempt => retryCount' = retryCount + 1]_vars

\* a run that used every retry of the upstream call and has ended
C37_Witness ==
  /\ Ended /\ cstate = "done" /\ retryCount = 3 /\ httpAttempts = 4
  /\ LastEvent.type = "error"

\* the fragments of the text_delta events of a sequence, in order
RECURSIVE Fragments(_)
Fragments(evs) ==
  IF evs = <<>> THEN <<>>
  ELSE IF Head(evs).type = "text_delta" THEN <<Head(evs).delta>> \o Fragments(Tail(evs))
  ELSE Fragments(Tail(evs))

\* C38: when a call of streamChatCompletion ends in done, the fragments of
\* all the text_delta events of the call, in order, make up the content of
\* the done event, also when an attempt that had yielded fragments failed at
\* network level and the request was made again.
C38_DeltasMakeContent ==
  (upResult.called /\ upResult.events[Len(upResult.events)].type = "done")
    => Fragments(upResult.events) = upResult.events[Len(upResult.events)].content

\* C39: whenever the file of a conversation leaves the disk, the updated_at
\* it holds at that moment precedes now minus the retention time, also when
\* an addMessage on the conversation has run between the sweep's read of
\* the file and its unlink: no appended message is deleted by the sweep.
C39_SweepSparesFresh ==
  [][\A s \in Sessions :
       (OnDisk(store.files[s]) /\ ~OnDisk(store'.files[s]))
         => store.files[s].updated_at < now - 7]_vars

\* the sendMessage calls that have passed the guard and not yet reached
\* the end of their finally block or returned
PastGuard == {c \in Calls : page.call[c] \in {"creating", "streaming"}}

\* C40: at most one call of the page's sendMessage is between the guard and
\* the end of its finally block at any time, the wait for the creation of a
\* session included: every other call has returned at the guard, without a
\* request.
C40_OneSendInFlight == Cardinality(PastGuard) <= 1

====
